---- MODULE Spec2Model ----
(***************************************************************************)
(* TrivAI live chat: the LiveClient streaming session (services/live) and  *)
(* the LiveChat effect that owns it (components/LiveChat).                 *)
(*                                                                         *)
(* One record per LiveClient holds the object's fields, the platform       *)
(* resources it talks to (microphone track, web socket, session promise,   *)
(* audio graph) and observation counters.  Every action is one event-loop  *)
(* task together with the microtasks it triggers.                          *)
(*                                                                         *)
(* The platform is the environment.  The session promise returned by       *)
(* ai.live.connect resolves at some time after the socket's open event or  *)
(* rejects before it.  AudioContext.state reads 'closed' either at once    *)
(* after close() or only after a later task (syncClose), and a node        *)
(* created on a closed context either throws or stays silent.              *)
(***************************************************************************)
EXTENDS Integers, Sequences, FiniteSets, TLC

\* ----------------------------------------------------------------- bounds
MaxClients == 2      \* LiveClients one chat view creates (effect runs)
MaxFrames  == 2      \* capture frames the audio thread produces per client
MaxBuffers == 3      \* audio buffers handed to the playback scheduler
MaxDuration == 2     \* longest buffer, in clock ticks
MaxTime    == 2      \* last reading of a playback context's clock
MaxSources == 4      \* host speech sources the quiz creates
MaxFragments == 4    \* transcription fragments delivered to the chat view
MaxNow     == 2      \* last reading of the wall clock behind Date.now()
MaxMessages == 2     \* server messages a client receives
MaxSamples == 2      \* samples in a capture buffer put through the codec
MaxLoads   == 2      \* loadNextQuestion calls in one sitting of the quiz
MaxPending == 1      \* service requests of the quiz in flight at once
MaxOptions == 3      \* longest options array in a response of the text service
MaxChanges == 3
Fine       == 4      \* sample values are multiples of 1 / (Scale * Fine)
Scale      == 32768  \* createBlob's factor and pcmToAudioBuffer's divisor

Clients == 1..MaxClients

\* The release steps of disconnect(), in program order.
Steps == {"sessionClose", "trackStop", "processorDisconnect",
          "sourceDisconnect", "inputClose", "outputClose"}

VARIABLES
    lc,         \* lc[c]: the c-th LiveClient and the resources it uses
    chat,       \* the LiveChat component: mounted, current client, React state
    syncClose,  \* platform: AudioContext.state reads 'closed' right after close()
    play,       \* LiveChat playback: the context clock and nextStartTimeRef
    tr,         \* LiveChat transcripts and the wall clock behind Date.now()
    app,        \* App quiz mode: host speech sources and isSpeaking
    codec,      \* a capture buffer on its way through encoder and decoder
    quiz,       \* App quiz mode: game state and the voice-offline indicator
    trivia,     \* a generateTriviaQuestion call and its result
    voice,      \* useVoiceControl: props, refs, recognizer and restart timer
    bgm         \* useSound: background music volume and its fade timer

vars == <<lc, chat, syncClose, play, tr, app, codec, quiz, trivia, voice, bgm>>

\* ------------------------------------------------------------ construction
NoCalls == [s \in Steps |-> 0]

\* What is recorded of the disconnect() calls made on one client: how many,
\* whether one was made while connect() was in flight or on an open session
\* with capture running, and whether the last call threw or left a rejected
\* promise behind.
NoDisc == [n |-> 0, inFlight |-> FALSE, fromOpen |-> FALSE, threw |-> FALSE,
           rejected |-> FALSE]

\* An AudioContext as the program sees it: its state attribute and whether
\* close() has been called on it.
AudioContext(s) == [state |-> s, closeCalled |-> FALSE]

\* A slot of lc before `new LiveClient` has run for it.
NoClient ==
    [pc |-> "none", session |-> FALSE, micStream |-> FALSE,
     processor |-> FALSE, source |-> FALSE, isConnected |-> FALSE,
     inputAudioContext |-> AudioContext("running"),
     outputAudioContext |-> AudioContext("running"),
     track |-> "none", chan |-> "none", promise |-> "none",
     reactions |-> <<>>, graph |-> FALSE, micPc |-> "idle",
     frameQ |-> <<>>, nextFrame |-> 0,
     opened |-> FALSE, closedEvt |-> FALSE, errorEvt |-> FALSE,
     sent |-> <<>>, badSend |-> FALSE, ranDisconnected |-> {},
     calls |-> NoCalls, onErrorCalls |-> 0, onCloseCalls |-> 0,
     disc |-> NoDisc,
     received |-> 0, inbox |-> <<>>, awaiting |-> <<>>, awaited |-> {}, deferred |-> {},
     handedAudio |-> <<>>, handedText |-> <<>>]

\* new LiveClient(config) followed at once by client.connect(): the two
\* audio contexts are created (suspended or running, by autoplay policy)
\* and connect() suspends in getUserMedia.
constructor(s) ==
    [NoClient EXCEPT !.pc = "awaitMic",
                     !.inputAudioContext = AudioContext(s),
                     !.outputAudioContext = AudioContext(s)]

\* ------------------------------------------------------------- disconnect
\* An open session with capture running.
OpenCapturing(r) ==
    /\ r.isConnected /\ r.chan = "open"
    /\ r.micStream /\ r.track = "live"
    /\ r.source /\ r.processor /\ r.graph

\* A callback registered with sessionPromise.then: the continuation of
\* connect()'s await, disconnect()'s close, or the send of capture frame id.
Reaction(k, id) == [k |-> k, id |-> id]

\* s.close() inside the callback disconnect() registers on the session
\* promise; a throw is caught there.  Closing an open socket starts its
\* closing handshake, the close event follows later.
closeSession(r, f) ==
    [r EXCEPT !.calls.sessionClose = @ + 1,
              !.chan = IF @ = "open" /\ "sessionClose" \notin f
                       THEN "closing" ELSE @]

\* ctx.close(): the context stops rendering; its state attribute reads
\* 'closed' at once on some platforms and only after a later task on others.
closeContext(ctx, sync) ==
    [state |-> IF sync THEN "closed" ELSE ctx.state, closeCalled |-> TRUE]

\* disconnect(), with f the release steps that throw on this call.
disconnect(r, f, sync) ==
    LET inFlight == r.pc \in {"awaitMic", "awaitSession"}
        \* this.isConnected = false; if (this.session) {...; this.session = null}
        a == [r EXCEPT
                !.isConnected = FALSE,
                !.session = FALSE,
                !.reactions = IF r.session /\ r.promise = "pending"
                              THEN Append(@, Reaction("close", 0)) ELSE @]
        b == IF r.session /\ r.promise = "resolved" THEN closeSession(a, f) ELSE a
        \* if (this.micStream) { getTracks().forEach(t => t.stop()); ... = null }
        stopThrows == r.micStream /\ "trackStop" \in f
        c == IF ~r.micStream THEN b
             ELSE IF stopThrows THEN [b EXCEPT !.calls.trackStop = @ + 1]
             ELSE [b EXCEPT !.calls.trackStop = @ + 1,
                            !.track = "stopped", !.micStream = FALSE]
        \* if (this.processor) { this.processor.disconnect(); ... = null }
        procCalled == ~stopThrows /\ r.processor
        procThrows == procCalled /\ "processorDisconnect" \in f
        d == IF ~procCalled THEN c
             ELSE IF procThrows THEN [c EXCEPT !.calls.processorDisconnect = @ + 1]
             ELSE [c EXCEPT !.calls.processorDisconnect = @ + 1,
                            !.processor = FALSE, !.graph = FALSE]
        \* if (this.source) { this.source.disconnect(); ... = null }
        srcCalled == ~stopThrows /\ ~procThrows /\ r.source
        srcThrows == srcCalled /\ "sourceDisconnect" \in f
        e == IF ~srcCalled THEN d
             ELSE IF srcThrows THEN [d EXCEPT !.calls.sourceDisconnect = @ + 1]
             ELSE [d EXCEPT !.calls.sourceDisconnect = @ + 1,
                            !.source = FALSE, !.graph = FALSE]
        threw == stopThrows \/ procThrows \/ srcThrows
        \* try { if (in.state !== 'closed') in.close();
        \*       if (out.state !== 'closed') out.close(); } catch {}
        inCalled == ~threw /\ r.inputAudioContext.state # "closed"
        inThrows == inCalled /\ "inputClose" \in f
        g == IF ~inCalled THEN e
             ELSE IF inThrows THEN [e EXCEPT !.calls.inputClose = @ + 1]
             ELSE [e EXCEPT !.calls.inputClose = @ + 1,
                            !.inputAudioContext = closeContext(@, sync)]
        outCalled == ~threw /\ ~inThrows /\ r.outputAudioContext.state # "closed"
        outThrows == outCalled /\ "outputClose" \in f
        h == IF ~outCalled THEN g
             ELSE IF outThrows THEN [g EXCEPT !.calls.outputClose = @ + 1]
             ELSE [g EXCEPT !.calls.outputClose = @ + 1,
                            !.outputAudioContext = closeContext(@, sync)]
        \* close() on a context already being closed returns a rejected
        \* promise that nothing handles
        rejected == \/ inCalled /\ ~inThrows /\ r.inputAudioContext.closeCalled
                    \/ outCalled /\ ~outThrows /\ r.outputAudioContext.closeCalled
    IN  [h EXCEPT !.disc = [n |-> r.disc.n + 1,
                            inFlight |-> r.disc.inFlight \/ inFlight,
                            fromOpen |-> r.disc.fromOpen \/ OpenCapturing(r),
                            threw |-> threw, rejected |-> rejected]]

\* ---------------------------------------------------------------- capture
\* session.sendRealtimeInput({ media: blob }) for capture frame id; badSend
\* records a call made while isConnected is false.
sendRealtimeInput(r, id) ==
    [r EXCEPT !.sent = Append(@, id), !.badSend = @ \/ ~r.isConnected]

\* onaudioprocess without its isConnected check.
onaudioprocess_unchecked(r, id) ==
    IF r.promise = "resolved" THEN sendRealtimeInput(r, id)
    ELSE IF r.promise = "pending"
         THEN [r EXCEPT !.reactions = Append(@, [k |-> "send", id |-> id])]
    ELSE r

\* processor.onaudioprocess for frame id: the isConnected check, then
\* sessionPromise.then(session => session.sendRealtimeInput(...)).  On a
\* resolved promise the callback runs in the microtask that follows; on a
\* pending one it waits for the resolution.
onaudioprocess(r, id) ==
    IF ~r.isConnected THEN r
    ELSE IF r.promise = "resolved" THEN sendRealtimeInput(r, id)
    ELSE IF r.promise = "pending"
         THEN [r EXCEPT !.reactions = Append(@, Reaction("send", id)),
                        !.deferred = @ \cup {id}]
    ELSE r

\* startMicStream from createMediaStreamSource on: source and processor are
\* created, the handler is set and the graph is wired.  The call throws for a
\* null micStream, and (throws) where the platform refuses a closed context.
attach(r, throws) ==
    IF ~r.micStream \/ throws THEN [r EXCEPT !.micPc = "aborted"]
    ELSE [r EXCEPT !.source = TRUE, !.processor = TRUE, !.graph = TRUE,
                   !.micPc = "done"]

\* startMicStream up to its first suspension point.
startMicStream(r, throws) ==
    IF ~r.micStream THEN [r EXCEPT !.micPc = "skipped"]
    ELSE IF r.inputAudioContext.state = "suspended"
         THEN [r EXCEPT !.micPc = "awaitResume"]
    ELSE attach(r, throws)

\* startMicStream after `await this.inputAudioContext.resume()`: resume()
\* rejects on a context that close() was called on.
resumed(r) ==
    IF r.inputAudioContext.closeCalled \/ r.inputAudioContext.state = "closed"
    THEN [r EXCEPT !.micPc = "aborted"]
    ELSE attach([r EXCEPT !.inputAudioContext.state = "running"], FALSE)

\* ------------------------------------------------------ session callbacks
onopen(r, throws) == startMicStream([r EXCEPT !.isConnected = TRUE], throws)

onclose(r) == [r EXCEPT !.isConnected = FALSE, !.onCloseCalls = @ + 1]

onerror(r) == [r EXCEPT !.onErrorCalls = @ + 1]

\* ---------------------------------------------------------------- connect
\* connect() starting the capture pipeline as soon as the microphone is
\* there, without waiting for onopen.
connectAfterMic_eager(r) ==
    attach([r EXCEPT !.micStream = TRUE, !.track = "live",
                     !.promise = "pending", !.chan = "connecting",
                     !.session = TRUE,
                     !.reactions = <<[k |-> "await", id |-> 0]>>,
                     !.pc = "awaitSession"], FALSE)

\* connect() from the resolution of getUserMedia to `await sessionPromise`.
connectAfterMic(r) ==
    [r EXCEPT !.micStream = TRUE, !.track = "live",
              !.promise = "pending", !.chan = "connecting",
              !.session = TRUE,
              !.reactions = <<Reaction("await", 0)>>,
              !.pc = "awaitSession"]

\* connect()'s catch block without the report to the caller.
connectCatch_silent(r, f, sync) ==
    disconnect([r EXCEPT !.pc = "failed"], f, sync)

\* connect()'s catch block: onError(err), then this.disconnect().
connectCatch(r, f, sync) ==
    disconnect([r EXCEPT !.onErrorCalls = @ + 1, !.pc = "failed"], f, sync)

\* The callbacks registered on the session promise, run in registration
\* order when it resolves.
RECURSIVE runReactions(_, _)
runReactions(r, q) ==
    IF q = <<>> THEN r
    ELSE LET x == Head(q)
             r2 == CASE x.k = "await" -> [r EXCEPT !.pc = "settled"]
                     [] x.k = "close" -> closeSession(r, {})
                     [] OTHER         -> sendRealtimeInput(r, x.id)
         IN  runReactions(r2, Tail(q))

\* q in reverse.
RECURSIVE Reverse(_)
Reverse(q) == IF q = <<>> THEN <<>> ELSE Append(Reverse(Tail(q)), Head(q))

\* The session promise running its callbacks latest first.
resolveSession_latestFirst(r) ==
    runReactions([r EXCEPT !.promise = "resolved", !.reactions = <<>>],
                 Reverse(r.reactions))

\* The session promise resolves: its callbacks run in registration order.
resolveSession(r) ==
    runReactions([r EXCEPT !.promise = "resolved", !.reactions = <<>>],
                 r.reactions)

\* A rejected session promise: only connect()'s await reacts (its catch
\* block runs); disconnect()'s .catch(() => {}) swallows the rejection.
rejectSession(r, f, sync) ==
    connectCatch([r EXCEPT !.promise = "rejected", !.reactions = <<>>,
                           !.chan = "closed"], f, sync)

\* --------------------------------------------------------------- playback
\* LiveChat's playback state before the first buffer: the context's clock
\* (ctx.currentTime), nextStartTimeRef, and the record of what was scheduled:
\* for each buffer the clock and cursor readings on arrival, the time given
\* to source.start and the buffer's duration.
NoPlayback == [currentTime |-> 0, nextStartTime |-> 0, sched |-> <<>>]

\* The effect creates a new playback context: its clock starts again, the
\* ref holding the cursor is not reset.
newPlaybackContext(p) == [p EXCEPT !.currentTime = 0]

\* onAudioData starting every buffer at the cursor, without the check
\* against the clock.
onAudioData_nosnap(p, d) ==
    [p EXCEPT !.nextStartTime = p.nextStartTime + d,
              !.sched = Append(@, [at |-> p.currentTime,
                                   cursor |-> p.nextStartTime,
                                   start |-> p.nextStartTime,
                                   duration |-> d])]

\* onAudioData starting every buffer at the clock's current time.
onAudioData_restart(p, d) ==
    [p EXCEPT !.nextStartTime = p.currentTime + d,
              !.sched = Append(@, [at |-> p.currentTime,
                                   cursor |-> p.nextStartTime,
                                   start |-> p.currentTime,
                                   duration |-> d])]

\* onAudioData starting a late buffer at the clock's time but advancing
\* the stale cursor.
onAudioData_stale(p, d) ==
    [p EXCEPT !.nextStartTime = p.nextStartTime + d,
              !.sched = Append(@, [at |-> p.currentTime,
                                   cursor |-> p.nextStartTime,
                                   start |-> IF p.nextStartTime < p.currentTime
                                             THEN p.currentTime
                                             ELSE p.nextStartTime,
                                   duration |-> d])]

\* onAudioData(buffer) for a buffer of duration d: the cursor is moved up to
\* the clock if it lies in the past, the source starts at the cursor, the
\* cursor advances by the duration.
onAudioData(p, d) ==
    LET currentTime == p.currentTime
        startAt == IF p.nextStartTime < currentTime THEN currentTime
                   ELSE p.nextStartTime
    IN  [p EXCEPT !.nextStartTime = startAt + d,
                  !.sched = Append(@, [at |-> currentTime,
                                       cursor |-> p.nextStartTime,
                                       start |-> startAt,
                                       duration |-> d])]

\* ------------------------------------------------------------ transcripts
\* Texts are sequences of letters, so that concatenation is \o.
Fragments == {<<"h", "e", "l">>, <<"l", "o">>, <<"h", "i">>}

\* The chat view's transcripts state before any fragment, the reading of
\* Date.now(), and the fragments delivered so far.
NoTranscripts == [transcripts |-> <<>>, now |-> 0, fragments |-> <<>>]

\* prev.slice(0, -1)
AllButLast(prev) == SubSeq(prev, 1, Len(prev) - 1)

\* The updater replacing the last turn's text by the fragment.
updater_replace(prev, text, isUser, now) ==
    IF prev # <<>> /\ prev[Len(prev)].isUser = isUser
    THEN Append(AllButLast(prev), [prev[Len(prev)] EXCEPT !.text = text])
    ELSE Append(prev, [text |-> text, isUser |-> isUser, id |-> now])

\* The updater merging into the speaker's latest turn wherever it is.
updater_anyTurn(prev, text, isUser, now) ==
    LET mine == {i \in DOMAIN prev : prev[i].isUser = isUser}
    IN  IF mine # {}
        THEN LET i == CHOOSE k \in mine : \A m \in mine : m <= k
             IN  [prev EXCEPT ![i].text = @ \o text]
        ELSE Append(prev, [text |-> text, isUser |-> isUser, id |-> now])

\* The updater putting a new turn first.
updater_front(prev, text, isUser, now) ==
    IF prev # <<>> /\ prev[Len(prev)].isUser = isUser
    THEN Append(AllButLast(prev), [prev[Len(prev)] EXCEPT !.text = @ \o text])
    ELSE <<[text |-> text, isUser |-> isUser, id |-> now]>> \o prev

\* The function onTranscription passes to setTranscripts: the fragment is
\* added to the last turn if that turn has the same speaker, otherwise it
\* becomes a new last turn with id Date.now().
updater(prev, text, isUser, now) ==
    IF prev # <<>> /\ prev[Len(prev)].isUser = isUser
    THEN Append(AllButLast(prev), [prev[Len(prev)] EXCEPT !.text = @ \o text])
    ELSE Append(prev, [text |-> text, isUser |-> isUser, id |-> now])

\* onTranscription(text, isUser) on the mounted chat view.
onTranscription(t, text, isUser) ==
    [t EXCEPT !.transcripts = updater(@, text, isUser, t.now),
              !.fragments = Append(@, [text |-> text, isUser |-> isUser])]

\* ------------------------------------------------------------ host speech
\* The quiz view before any host speech: isSpeaking, currentAudioSourceRef
\* (0 for null, else the number of a source) and every buffer source
\* created so far: "playing", "ending" once it has stopped or run out and
\* its ended event is queued, "done" once its onended handler has run.
NoSpeech == [isSpeaking |-> FALSE, currentAudioSourceRef |-> 0, sources |-> <<>>]

\* AudioBufferSourceNode.stop(): a playing source stops and queues its ended
\* event; on a source that has already stopped it changes nothing.
stop(a, i) ==
    IF i # 0 /\ a.sources[i] = "playing"
    THEN [a EXCEPT !.sources[i] = "ending"] ELSE a

\* playAudio(base64Data) once it has its context and analyser: the current
\* source is stopped; the new one becomes current, isSpeaking is set and it
\* starts. If decoding throws (decodes = FALSE) the catch clears isSpeaking.
playAudio(a, decodes) ==
    LET b == stop(a, a.currentAudioSourceRef)
    IN  IF decodes
        THEN [b EXCEPT !.sources = Append(@, "playing"),
                       !.currentAudioSourceRef = Len(b.sources) + 1,
                       !.isSpeaking = TRUE]
        ELSE [b EXCEPT !.isSpeaking = FALSE]

\* source.onended of source i.
onended(a, i) ==
    [a EXCEPT !.sources[i] = "done",
              !.isSpeaking = FALSE,
              !.currentAudioSourceRef = 0]

\* confirmExit(): the current source is stopped and isSpeaking cleared.
confirmExit(a) ==
    [stop(a, a.currentAudioSourceRef) EXCEPT !.isSpeaking = FALSE]

\* ---------------------------------------------------------------- inbound
\* The byte lengths of inlineData.data in the messages considered: 0 for a
\* message without audio, an odd and an even length.
PayloadBytes == {0, 1, 2}

\* A server message as handleMessage reads it: n is its place in the order
\* of arrival; bytes is the byte length of parts[0].inlineData.data (0 when
\* absent or empty); out and inp tell whether it carries output and input
\* transcription text.
Messages(n) ==
    [n : {n}, bytes : PayloadBytes, out : BOOLEAN, inp : BOOLEAN]

\* new Int16Array(bytes.buffer) on a buffer of byteLength bytes: the number
\* of 16-bit frames, or -1 for the RangeError thrown on an odd length.
Int16ArrayLength(byteLength) ==
    IF byteLength % 2 = 0 THEN byteLength \div 2 ELSE -1

\* What a handler call can change: the client r, and through the config
\* callbacks the chat view's playback state and transcripts.
World(r, p, t, mounted) == [r |-> r, play |-> p, tr |-> t, mounted |-> mounted]

\* config.onTranscription?.(text, isUser): setTranscripts changes nothing
\* on an unmounted view.
deliverText(w, m, text, isUser) ==
    [w EXCEPT !.r.handedText = Append(@, [n |-> m.n, isUser |-> isUser]),
              !.tr = IF w.mounted THEN onTranscription(@, text, isUser) ELSE @]

\* The second half of handleMessage: output transcription, then input
\* transcription.
transcribe(w, m) ==
    LET a == IF m.out THEN deliverText(w, m, <<"h", "i">>, FALSE) ELSE w
    IN  IF m.inp THEN deliverText(a, m, <<"l", "o">>, TRUE) ELSE a

\* The catch of handleMessage reporting a chunk that does not decode as a
\* failure of the connection.
decode_fatal(w, m) ==
    LET frameCount == Int16ArrayLength(m.bytes)
    IN  IF frameCount > 0
        THEN [w EXCEPT !.r.handedAudio = Append(@, m.n),
                       !.play = onAudioData(@, frameCount)]
        ELSE [w EXCEPT !.r.onErrorCalls = @ + 1, !.r.isConnected = FALSE]

\* pcmToAudioBuffer and config.onAudioData(buffer) inside the try: the
\* buffer has one frame per two bytes and a duration in proportion; a
\* chunk that does not decode is caught, logged and dropped.
decode(w, m) ==
    LET frameCount == Int16ArrayLength(m.bytes)
    IN  IF frameCount > 0
        THEN [w EXCEPT !.r.handedAudio = Append(@, m.n),
                       !.play = onAudioData(@, frameCount)]
        ELSE w

\* handleMessage treating a message it has no use for as an error.
handleMessage_strict(w, m) ==
    IF m.bytes = 0 /\ ~m.out /\ ~m.inp
    THEN [w EXCEPT !.r.onErrorCalls = @ + 1]
    ELSE IF m.bytes # 0 /\ w.r.outputAudioContext.state = "suspended"
    THEN [w EXCEPT !.r.awaiting = Append(@, m),
                   !.r.awaited = @ \cup {m.n}]
    ELSE transcribe(IF m.bytes # 0 THEN decode(w, m) ELSE w, m)

\* handleMessage(message) up to its first suspension: with audio on a
\* suspended output context it calls resume() and waits; otherwise it runs
\* to its end.
handleMessage(w, m) ==
    IF m.bytes # 0 /\ w.r.outputAudioContext.state = "suspended"
    THEN [w EXCEPT !.r.awaiting = Append(@, m),
                   !.r.awaited = @ \cup {m.n}]
    ELSE transcribe(IF m.bytes # 0 THEN decode(w, m) ELSE w, m)

\* The handlers in q continue, in the order of q, after their await: the
\* audio is decoded if resume() was fulfilled, skipped if it was rejected.
RECURSIVE continue(_, _, _)
continue(w, q, fulfilled) ==
    IF q = <<>> THEN w
    ELSE continue(transcribe(IF fulfilled THEN decode(w, Head(q)) ELSE w,
                             Head(q)),
                  Tail(q), fulfilled)

\* The pending resume() promises settled latest first.
resumeSettled_latestFirst(w, fulfilled) ==
    continue([w EXCEPT !.r.awaiting = <<>>,
                       !.r.outputAudioContext.state =
                           IF fulfilled THEN "running" ELSE @],
             Reverse(w.r.awaiting), fulfilled)

\* The output context settles its pending resume() promises, in the order
\* of the calls; the suspended handlers continue in that order. Fulfilled,
\* the context is running.
resumeSettled(w, fulfilled) ==
    continue([w EXCEPT !.r.awaiting = <<>>,
                       !.r.outputAudioContext.state =
                           IF fulfilled THEN "running" ELSE @],
             w.r.awaiting, fulfilled)

\* ------------------------------------------------------------------ codec
\* A sample value x is held as the integer x * Unit, so that 1.0 is Unit and
\* one 16-bit step (1 / 32768) is Fine.
Unit == Scale * Fine

\* The sample values put through the codec: both ends of [-1, 1] and values
\* next to them, values within one 16-bit step of 0, mid-range values that
\* are not multiples of a 16-bit step, and values outside [-1, 1].
Samples ==
    {-2 * Unit, -Unit - 1, -Unit, -Unit + 1, -(Unit \div 2) - 1, -1, 0, 1,
     Fine + 1, (Unit \div 2) + 1, Unit - Fine - 1, Unit - 1, Unit, Unit + 1,
     2 * Unit}

\* Non-empty buffers of up to n samples.
Buffers(n) == UNION {[1..k -> Samples] : k \in 1..n}

\* The integer part of v / d, as the conversion to an integer type takes it.
Trunc(v, d) == IF v >= 0 THEN v \div d ELSE -((-v) \div d)

\* Storing the integer n in an Int16Array element: n modulo 2^16, read as a
\* signed 16-bit value.
ToInt16(n) == ((n + 32768) % 65536) - 32768

\* Math.max(-1, Math.min(1, x))
Clamp(v) == IF v > Unit THEN Unit ELSE IF v < -Unit THEN -Unit ELSE v

\* The two bytes of a 16-bit value in the Uint8Array view, low byte first.
RECURSIVE Uint8Array(_)
Uint8Array(int16) ==
    IF int16 = <<>> THEN <<>>
    ELSE LET u == Head(int16) % 65536
         IN  <<u % 256, u \div 256>> \o Uint8Array(Tail(int16))

\* btoa of a byte string: three bytes become four 6-bit digits, the last
\* group is padded (64 stands for '=').
RECURSIVE btoa(_)
btoa(b) ==
    IF b = <<>> THEN <<>>
    ELSE IF Len(b) = 1
         THEN <<b[1] \div 4, (b[1] % 4) * 16, 64, 64>>
    ELSE IF Len(b) = 2
         THEN <<b[1] \div 4, (b[1] % 4) * 16 + b[2] \div 16, (b[2] % 16) * 4, 64>>
    ELSE <<b[1] \div 4, (b[1] % 4) * 16 + b[2] \div 16,
           (b[2] % 16) * 4 + b[3] \div 64, b[3] % 64>>
         \o btoa(SubSeq(b, 4, Len(b)))

\* atob: four digits become up to three bytes.
RECURSIVE atob(_)
atob(d) ==
    IF d = <<>> THEN <<>>
    ELSE LET first == d[1] * 4 + d[2] \div 16
             second == (d[2] % 16) * 16 + d[3] \div 4
             third == (d[3] % 4) * 64 + d[4]
         IN  (IF d[3] = 64 THEN <<first>>
              ELSE IF d[4] = 64 THEN <<first, second>>
              ELSE <<first, second, third>>)
             \o atob(SubSeq(d, 5, Len(d)))

\* The Int16Array createBlob fills: int16[i] = data[i] * 32768, which in
\* these units is the integer part of data[i] / Fine.
createBlobInt16(data) ==
    [i \in DOMAIN data |-> ToInt16(Trunc(data[i], Fine))]

\* createBlob(data).data
createBlob(data) == btoa(Uint8Array(createBlobInt16(data)))

\* The integer part of s * 0x7FFF for a sample s >= 0 held as v: that is
\* (v * Scale - v) / Unit, computed from v = q * Fine + r as
\* q + (r * Scale - v) / Unit to stay within the integers of the checker.
TimesMax(v) == (v \div Fine) + (((v % Fine) * Scale - v) \div Unit)

\* The Int16Array float32ToB64PCM fills: each sample is clamped to [-1, 1]
\* and scaled by 0x8000 if negative, by 0x7FFF otherwise.
float32ToInt16(data) ==
    [i \in DOMAIN data |->
        LET x == Clamp(data[i])
        IN  ToInt16(IF x < 0 THEN Trunc(x, Fine) ELSE TimesMax(x))]

\* float32ToB64PCM(float32Array)
float32ToB64PCM(data) == btoa(Uint8Array(float32ToInt16(data)))

\* The Int16Array view of a byte buffer of even length.
RECURSIVE Int16Array(_)
Int16Array(b) ==
    IF b = <<>> THEN <<>>
    ELSE LET u == b[1] + 256 * b[2]
         IN  <<IF u >= 32768 THEN u - 65536 ELSE u>>
             \o Int16Array(SubSeq(b, 3, Len(b)))

\* pcmToAudioBuffer(base64String, ctx): the channel data of the buffer, each
\* 16-bit value divided by 32768; threw for an odd number of bytes.
pcmToAudioBuffer(base64String) ==
    LET bytes == atob(base64String)
    IN  IF Int16ArrayLength(Len(bytes)) < 0
        THEN [threw |-> TRUE, channelData |-> <<>>]
        ELSE LET dataInt16 == Int16Array(bytes)
             IN  [threw |-> FALSE,
                  channelData |-> [i \in DOMAIN dataInt16 |-> dataInt16[i] * Fine]]

\* No buffer in the codec.
NoCodec == [stage |-> "idle", encoder |-> "none", samples |-> <<>>,
            int16 |-> <<>>, data |-> <<>>, threw |-> FALSE,
            channelData |-> <<>>]

\* ------------------------------------------------------------------- quiz
\* What the synthesis service does with one request: a quota (429) error,
\* any other error, a response without candidates, a response whose first
\* part carries no inline data, inline data of length 0, inline audio.
SpeechOutcomes == {"quota", "error", "noCandidates", "noInline",
                   "emptyAudio", "audio"}

\* A promise fulfilled with null, and one fulfilled with a payload of the
\* given length.
ResolvedNull == [settled |-> "fulfilled", null |-> TRUE, data |-> 0]
Resolved(data) == [settled |-> "fulfilled", null |-> FALSE, data |-> data]
Rejected == [settled |-> "rejected", null |-> FALSE, data |-> 0]

generateSpeech_throwing(apiKey, outcome) ==
    IF ~apiKey THEN ResolvedNull
    ELSE CASE outcome = "audio" -> Resolved(1)
           [] outcome = "emptyAudio" -> Resolved(0)
           [] outcome \in {"noCandidates", "noInline"} -> ResolvedNull
           [] outcome = "quota" -> Rejected
           [] OTHER -> ResolvedNull

\* generateSpeech(apiKey, text, voiceName): null without a key; the inline
\* data of the first part when the response has it; null when it has not;
\* the catch returns null for a quota error and for every other error.
generateSpeech(apiKey, outcome) ==
    IF ~apiKey THEN ResolvedNull
    ELSE CASE outcome = "audio" -> Resolved(1)
           [] outcome = "emptyAudio" -> Resolved(0)
           [] outcome \in {"noCandidates", "noInline"} -> ResolvedNull
           [] outcome = "quota" -> ResolvedNull
           [] OTHER -> ResolvedNull

\* if (audioData): null and the empty string are falsy.
Truthy(r) == ~r.null /\ r.data > 0

\* The quiz before the first game. calls are the service requests in
\* flight, each with the number of the loadNextQuestion call it belongs to
\* (for a reaction: the question answered); loads counts loadNextQuestion
\* calls; last is the latest synthesis request that settled, with what it
\* settled to and what playAudio did with the payload. analyser is the
\* analyser state (null until initAudio has run). loadSees and answerSees
\* tell whether the playAudio that the memoized loadNextQuestion and
\* handleAnswer have closed over sees an analyser: a useCallback keeps the
\* functions of the render in which one of its dependencies last changed,
\* and a call in flight keeps (sees) those of the callback that made it.
NoQuiz ==
    [gameState |-> "SETUP", questionCount |-> 0, score |-> 0,
     currentQuestion |-> 0, isVoiceOffline |-> FALSE,
     isGeneratingTTS |-> FALSE, calls |-> {}, loads |-> 0,
     analyser |-> FALSE, loadSees |-> FALSE, answerSees |-> FALSE,
     last |-> [kind |-> "none", load |-> 0, result |-> ResolvedNull,
               played |-> "none"]]

\* loadNextQuestion() up to its first await.
loadNextQuestion(q) ==
    [q EXCEPT !.gameState = "LOADING_QUESTION",
              !.isVoiceOffline = FALSE,
              !.loads = @ + 1,
              !.calls = @ \cup {[kind |-> "question", load |-> q.loads + 1,
                                  sees |-> q.loadSees]}]

\* loadNextQuestion() from the question to its second await: the question
\* request gives way to the request to read the question out.
\* setCurrentQuestion and setPastQuestions change a dependency of both
\* callbacks, which are made anew in the next render.
questionLoaded(q, call) ==
    [q EXCEPT !.currentQuestion = call.load,
              !.gameState = "PLAYING",
              !.isGeneratingTTS = TRUE,
              !.calls = (@ \ {call}) \cup {[call EXCEPT !.kind = "readout"]},
              !.loadSees = q.analyser,
              !.answerSees = q.analyser]

\* handleStartGame(): initAudio creates context and analyser, the counters
\* are reset and the loadNextQuestion of the render that made this handler
\* is called. A changed questionCount makes loadNextQuestion anew.
handleStartGame(q) ==
    [loadNextQuestion([q EXCEPT !.score = 0, !.questionCount = 0])
        EXCEPT !.analyser = TRUE,
               !.loadSees = IF q.questionCount # 0 THEN TRUE ELSE @]

\* handleAnswer(index) up to its await.
handleAnswer(q, isCorrect) ==
    IF q.currentQuestion = 0 THEN q
    ELSE [q EXCEPT !.isGeneratingTTS = TRUE,
                   !.score = IF isCorrect THEN @ + 100 ELSE @,
                   !.gameState = "RESULT",
                   !.questionCount = @ + 1,
                   !.calls = @ \cup {[kind |-> "reaction",
                                       load |-> q.currentQuestion,
                                       sees |-> q.answerSees]},
                   !.analyser = TRUE,
                   !.loadSees = TRUE]

QuestionsPerGame == 5

\* handleNext().
handleNext(q) ==
    IF q.questionCount >= QuestionsPerGame
    THEN [q EXCEPT !.gameState = "GAME_OVER"]
    ELSE loadNextQuestion(q)

\* What playAudio does with a payload: without an analyser in its closure
\* it returns at once ("dropped"); otherwise the source starts or, when
\* decoding throws, the catch logs the error ("failed").
Played(call, r, decodes) ==
    IF r.settled = "rejected" \/ ~Truthy(r) THEN "none"
    ELSE IF ~call.sees THEN "dropped"
    ELSE IF decodes THEN "started" ELSE "failed"

\* The rest of loadNextQuestion() or handleAnswer() once their synthesis
\* request has settled with r. A rejection ends handleAnswer where it
\* stands and takes loadNextQuestion to its catch. The initAudio of
\* playAudio creates an analyser when its closure has none.
speechSettled(q, call, r, decodes) ==
    LET p == [q EXCEPT !.calls = @ \ {call},
                       !.analyser = @ \/ Played(call, r, decodes) # "none",
                       !.last = [kind |-> call.kind, load |-> call.load,
                                 result |-> r,
                                 played |-> Played(call, r, decodes)]]
    IN  IF r.settled = "rejected"
        THEN IF call.kind = "readout"
             THEN [p EXCEPT !.gameState = "SETUP"] ELSE p
        ELSE IF Truthy(r)
             THEN [p EXCEPT !.isGeneratingTTS = FALSE]
             ELSE [p EXCEPT !.isGeneratingTTS = FALSE,
                            !.isVoiceOffline = TRUE]

\* ----------------------------------------------------------------- trivia
\* A JSON value as generateTriviaQuestion looks at it: whether it is an
\* object, its question ("absent", "empty" or "text"), whether its options
\* are an array and of what length, and whether it has a correctAnswerIndex
\* and which. JSON null, a number, a string stand as "null" and "scalar".
NoFields ==
    [question |-> "absent", isArray |-> FALSE, options |-> 0,
     hasIndex |-> FALSE, correctAnswerIndex |-> 0]

Objects ==
    {f \in [question : {"absent", "empty", "text"}, isArray : BOOLEAN,
            options : 0..MaxOptions, hasIndex : BOOLEAN,
            correctAnswerIndex : -1..MaxOptions] :
        /\ ~f.isArray => f.options = 0
        /\ ~f.hasIndex => f.correctAnswerIndex = 0}

JsonValues ==
    {[type |-> "null", fields |-> NoFields],
     [type |-> "scalar", fields |-> NoFields]}
        \cup {[type |-> "object", fields |-> f] : f \in Objects}

\* The text of a response: a JSON value as it stands, inside a ```json
\* fence or inside a sentence; an object cut short before its last brace
\* ("truncated"), braces around text that is no JSON ("brokenBraces") and
\* text without any brace ("chatter").
Texts ==
    [form : {"raw", "fenced", "prose"}, json : JsonValues]
        \cup {[form |-> form, json |-> [type |-> "null", fields |-> NoFields]] :
                 form \in {"truncated", "chatter", "brokenBraces"}}

\* What the text service does with one request.
Responses ==
    {[kind |-> kind, text |-> [form |-> "chatter",
                                json |-> [type |-> "null", fields |-> NoFields]]] :
        kind \in {"quota", "error", "noText"}}
        \cup {[kind |-> "text", text |-> t] : t \in Texts}

\* text.replace(/```json\n?|```/g, "").trim()
cleanText(text) ==
    IF text.form = "fenced" THEN [text EXCEPT !.form = "raw"] ELSE text

\* JSON.parse: only a value as it stands parses.
JSONparse(text) ==
    IF text.form = "raw"
    THEN [ok |-> TRUE, data |-> text.json]
    ELSE [ok |-> FALSE, data |-> text.json]

\* The catch of the first JSON.parse: the text from the first { to the last }
\* is parsed when there is one.
extract(text) ==
    IF text.form = "prose" /\ text.json.type = "object"
    THEN JSONparse([text EXCEPT !.form = "raw"])
    ELSE [ok |-> FALSE, data |-> text.json]

\* !data || !data.question || !Array.isArray(data.options), then
\* data.options.length < 2.
validate(data) ==
    /\ data.type # "null"
    /\ data.fields.question = "text"
    /\ data.fields.isArray
    /\ data.fields.options >= 2

\* The question the catch returns.
Fallback ==
    [question |-> "text", isArray |-> TRUE, options |-> 4,
     hasIndex |-> TRUE, correctAnswerIndex |-> 1]

\* generateTriviaQuestion(apiKey, ...): throws without a key; returns the
\* parsed and validated object; every throw inside the try ends in the
\* fallback question.
generateTriviaQuestion(apiKey, response) ==
    IF ~apiKey THEN [settled |-> "rejected", data |-> NoFields]
    ELSE IF response.kind # "text"
    THEN [settled |-> "fulfilled", data |-> Fallback]
    ELSE LET clean == cleanText(response.text)
             first == JSONparse(clean)
             parsed == IF first.ok THEN first ELSE extract(clean)
         IN  IF parsed.ok /\ validate(parsed.data)
             THEN [settled |-> "fulfilled", data |-> parsed.data.fields]
             ELSE [settled |-> "fulfilled", data |-> Fallback]

\* No call of generateTriviaQuestion yet.
NoTrivia ==
    [stage |-> "idle", apiKey |-> FALSE,
     response |-> [kind |-> "noText",
                   text |-> [form |-> "chatter",
                             json |-> [type |-> "null", fields |-> NoFields]]],
     result |-> [settled |-> "rejected", data |-> NoFields]]

\* ---------------------------------------------------------- voice control
GameStates == {"SETUP", "LOADING_QUESTION", "PLAYING", "RESULT",
               "GAME_OVER", "LIVE_CHAT"}

\* What onresult looks for in a transcript: an exit phrase, a start word, a
\* next word, and the option words it contains.
Transcripts ==
    [exit : BOOLEAN, start : BOOLEAN, next : BOOLEAN,
     options : {{}, {0}, {1}, {2}, {3}, {0, 1}, {2, 3}}]

Silence == [exit |-> FALSE, start |-> FALSE, next |-> FALSE, options |-> {}]

\* The errors the recognizer reports.
RecognitionErrors == {"not-allowed", "network", "no-speech", "aborted",
                      "audio-capture"}

\* The hook after its first render with voice control off. rec is the
\* recognizer ("stopped", "listening", or "ending" between an error or a
\* stop() and its end event); timer is the restart timer ("none", or the
\* delay it was set with); denied tells that 'not-allowed' was reported
\* since the enabled prop last changed; heard and invoked are the result
\* handled in the latest step and the handlers it called.
NoVoice ==
    [mounted |-> TRUE, enabled |-> FALSE, gameState |-> "SETUP",
     enabledRef |-> FALSE, gameStateRef |-> "SETUP",
     rec |-> "stopped", recentErrorRef |-> "none", timer |-> "none",
     denied |-> FALSE,
     heard |-> [final |-> FALSE, text |-> Silence], invoked |-> <<>>]

\* recognition.start(): throws, and is caught, unless the recognizer is
\* stopped.
start(v) == IF v.rec = "stopped" THEN [v EXCEPT !.rec = "listening"] ELSE v

\* recognition.stop()
recStop(v) == IF v.rec = "listening" THEN [v EXCEPT !.rec = "ending"] ELSE v

\* A call of one of the handlers; index is the argument of onAnswer.
Call(handler, index) == [handler |-> handler, index |-> index]

\* The first matching option word of the PLAYING branch.
FirstOption(text) == CHOOSE i \in text.options : \A j \in text.options : i <= j

onresult_anyResult(v, final, text) ==
    LET w == [v EXCEPT !.heard = [final |-> final, text |-> text]]
    IN  IF ~v.enabledRef THEN w
        ELSE LET x == [w EXCEPT !.recentErrorRef = "none"]
                 gs == v.gameStateRef
             IN  IF text.exit THEN [x EXCEPT !.invoked = <<Call("onExit", -1)>>]
                 ELSE IF gs = "SETUP" /\ text.start
                 THEN [x EXCEPT !.invoked = <<Call("onStart", -1)>>]
                 ELSE IF gs = "PLAYING" /\ text.options # {}
                 THEN [x EXCEPT !.invoked = <<Call("onAnswer", FirstOption(text))>>]
                 ELSE IF gs = "RESULT" /\ text.next
                 THEN [x EXCEPT !.invoked = <<Call("onNext", -1)>>]
                 ELSE x

\* recognition.onresult for the last result of the event.
onresult(v, final, text) ==
    LET w == [v EXCEPT !.heard = [final |-> final, text |-> text]]
    IN  IF ~v.enabledRef \/ ~final THEN w
        ELSE LET x == [w EXCEPT !.recentErrorRef = "none"]
                 gs == v.gameStateRef
             IN  IF text.exit THEN [x EXCEPT !.invoked = <<Call("onExit", -1)>>]
                 ELSE IF gs = "SETUP" /\ text.start
                 THEN [x EXCEPT !.invoked = <<Call("onStart", -1)>>]
                 ELSE IF gs = "PLAYING" /\ text.options # {}
                 THEN [x EXCEPT !.invoked = <<Call("onAnswer", FirstOption(text))>>]
                 ELSE IF gs = "RESULT" /\ text.next
                 THEN [x EXCEPT !.invoked = <<Call("onNext", -1)>>]
                 ELSE x

\* recognition.onend: the restart timer is set anew when enabledRef is true.
onend(v) ==
    LET w == [v EXCEPT !.rec = "stopped"]
    IN  IF v.enabledRef
        THEN [w EXCEPT !.timer = IF v.recentErrorRef = "network"
                                 THEN "long" ELSE "short"]
        ELSE w

\* The timer callback of onend.
restart(v) ==
    LET w == [v EXCEPT !.timer = "none"]
    IN  IF v.enabledRef THEN start(w) ELSE w

\* recognition.onerror
recognition_onerror(v, e) ==
    LET w == [v EXCEPT !.recentErrorRef = e, !.rec = "ending"]
    IN  IF e = "not-allowed"
        THEN [w EXCEPT !.enabledRef = FALSE, !.denied = TRUE]
        ELSE w

\* A render with the given props and the effects it triggers: the refs are
\* set to the props when handlers, gameState or enabled changed, and the
\* recognizer is started or stopped when enabled changed.
render(v, gameState, enabled) ==
    LET w == [v EXCEPT !.gameState = gameState, !.enabled = enabled,
                       !.gameStateRef = gameState, !.enabledRef = enabled,
                       !.denied = IF enabled # v.enabled THEN FALSE ELSE @]
    IN  IF enabled = v.enabled THEN w
        ELSE IF enabled THEN start(w) ELSE recStop(w)

\* The cleanup of the recognizer effect.
voiceCleanup(v) ==
    [recStop([v EXCEPT !.enabledRef = FALSE]) EXCEPT !.timer = "none",
                                                     !.mounted = FALSE]

\* The step has handled no result.
Quiet(v) == [v EXCEPT !.heard = NoVoice.heard, !.invoked = <<>>]

\* -------------------------------------------------- background music (useSound)
\* Volumes are in hundredths: the normal level 0.2, the ducked level 0.05
\* and the fade step 0.02.
Normal == 20
Ducked == 5
Step == 2

\* The hook after its first render: the music element at the normal volume,
\* not muted, the host silent, and the fade interval of the first effect
\* run; `target` is the targetVolume its closure holds.
NoBgm == [mounted |-> TRUE, volume |-> Normal, shouldDuck |-> FALSE,
          isMuted |-> FALSE, timer |-> TRUE, target |-> Normal,
          changes |-> 0]

\* The ducking effect, run again when shouldDuck or isMuted changed: the
\* cleanup clears the previous interval, then a new one is set unless the
\* music is muted.
duckingEffect(b) ==
    IF b.isMuted THEN [b EXCEPT !.timer = FALSE]
    ELSE [b EXCEPT !.timer = TRUE,
                   !.target = IF b.shouldDuck THEN Ducked ELSE Normal]

\* A fade without the final snap to the target.
fade_noSnap(b, rounded) ==
    [b EXCEPT !.volume = IF b.target > b.volume THEN @ + Step ELSE @ - Step]

\* One tick of the fade interval.  The volume is a double: when it is one
\* step away from the target the comparison Math.abs(diff) < step goes
\* either way with the rounding of the sums before it (`rounded`).
fade(b, rounded) ==
    LET diff == b.target - b.volume
        dist == IF diff < 0 THEN -diff ELSE diff
    IN  IF dist < Step \/ (dist = Step /\ rounded)
        THEN [b EXCEPT !.volume = b.target, !.timer = FALSE]
        ELSE [b EXCEPT !.volume = IF diff > 0 THEN @ + Step ELSE @ - Step]

\* toggleMute, and the render it causes.
toggleMute(b) == duckingEffect([b EXCEPT !.isMuted = ~@])

\* A render with another shouldDuck (the host starts or stops speaking).
setShouldDuck(b, shouldDuck) ==
    duckingEffect([b EXCEPT !.shouldDuck = shouldDuck])

\* The cleanup of the ducking effect on unmount.
bgmCleanup(b) == [b EXCEPT !.timer = FALSE, !.mounted = FALSE]


\* ------------------------------------------------------------------- Init
ContextStates == {"suspended", "running"}

Init ==
    /\ syncClose \in BOOLEAN
    /\ \E s \in ContextStates :
           lc = [c \in Clients |-> IF c = 1 THEN constructor(s) ELSE NoClient]
    /\ chat = [mounted |-> TRUE, cur |-> 1, isConnected |-> FALSE,
               error |-> FALSE, audioContext |-> "open"]
    /\ play = NoPlayback
    /\ tr = NoTranscripts
    /\ app = NoSpeech
    /\ codec = NoCodec
    /\ quiz = NoQuiz
    /\ trivia = NoTrivia
    /\ voice = NoVoice
    /\ bgm = NoBgm

\* ---------------------------------------------------------------- actions
\* LiveChat's state setters, as the callbacks it hands to the client call
\* them: onError -> setError, onClose -> setIsConnected(false),
\* connect().then -> setIsConnected(true).  An unmounted component keeps no
\* state.
setError(ch) == IF ch.mounted THEN [ch EXCEPT !.error = TRUE] ELSE ch

setIsConnected(ch, v) == IF ch.mounted THEN [ch EXCEPT !.isConnected = v] ELSE ch

\* getUserMedia resolves: connect() runs on to `await sessionPromise`.
GetUserMediaResolve(c) ==
    /\ lc[c].pc = "awaitMic"
    /\ lc' = [lc EXCEPT ![c] = connectAfterMic(@)]
    /\ UNCHANGED <<chat, syncClose, play, tr, app, codec, quiz, trivia, voice, bgm>>

\* getUserMedia rejects (permission denied): the catch block runs, connect()
\* resolves and LiveChat's .then(() => setIsConnected(true)) follows; if
\* disconnect() throws in the catch block connect() rejects instead.
GetUserMediaReject(c, f) ==
    /\ lc[c].pc = "awaitMic"
    /\ lc' = [lc EXCEPT ![c] = connectCatch(@, f, syncClose)]
    /\ chat' = IF lc'[c].disc.threw THEN setError(chat)
               ELSE setIsConnected(setError(chat), TRUE)
    /\ UNCHANGED <<syncClose, play, tr, app, codec, quiz, trivia, voice, bgm>>

\* The socket opens: the onopen callback.
WsOpen(c) ==
    /\ lc[c].chan = "connecting"
    /\ \E throws \in BOOLEAN :
        /\ throws => \/ lc[c].inputAudioContext.closeCalled
                     \/ lc[c].inputAudioContext.state = "closed"
        /\ lc' = [lc EXCEPT ![c] =
                    onopen([@ EXCEPT !.chan = "open", !.opened = TRUE], throws)]
    /\ UNCHANGED <<chat, syncClose, play, tr, app, codec, quiz, trivia, voice, bgm>>

\* inputAudioContext.resume() settles and startMicStream continues.
ResumeDone(c) ==
    /\ lc[c].micPc = "awaitResume"
    /\ lc' = [lc EXCEPT ![c] = resumed(@)]
    /\ UNCHANGED <<chat, syncClose, play, tr, app, codec, quiz, trivia, voice, bgm>>

\* The session promise resolves, after the socket has opened.
SessionResolve(c) ==
    /\ lc[c].promise = "pending"
    /\ lc[c].opened
    /\ lc' = [lc EXCEPT ![c] = resolveSession(@)]
    /\ chat' = setIsConnected(chat, TRUE)
    /\ UNCHANGED <<syncClose, play, tr, app, codec, quiz, trivia, voice, bgm>>

\* The session promise rejects: the channel could not be set up.
SessionReject(c, f) ==
    /\ lc[c].promise = "pending"
    /\ lc[c].chan = "connecting"
    /\ lc' = [lc EXCEPT ![c] = rejectSession(@, f, syncClose)]
    /\ chat' = IF lc'[c].disc.threw THEN setError(chat)
               ELSE setIsConnected(setError(chat), TRUE)
    /\ UNCHANGED <<syncClose, play, tr, app, codec, quiz, trivia, voice, bgm>>

\* The socket reports an error (at most once; it then fails and closes).
RemoteError(c) ==
    /\ lc[c].chan \in {"connecting", "open"}
    /\ ~lc[c].errorEvt
    /\ lc' = [lc EXCEPT ![c] =
                onerror([@ EXCEPT !.chan = "closing", !.errorEvt = TRUE])]
    /\ chat' = setError(chat)
    /\ UNCHANGED <<syncClose, play, tr, app, codec, quiz, trivia, voice, bgm>>

\* The socket's close event, whoever started the close.
RemoteClose(c) ==
    /\ lc[c].chan \in {"connecting", "open", "closing"}
    /\ lc' = [lc EXCEPT ![c] =
                onclose([@ EXCEPT !.chan = "closed", !.closedEvt = TRUE])]
    /\ chat' = setIsConnected(chat, FALSE)
    /\ UNCHANGED <<syncClose, play, tr, app, codec, quiz, trivia, voice, bgm>>

\* The audio thread fills a 4096-sample buffer and posts an audioprocess
\* event: only a wired graph on a rendering context does.
AudioTick(c) ==
    /\ lc[c].graph
    /\ lc[c].inputAudioContext.state = "running"
    /\ ~lc[c].inputAudioContext.closeCalled
    /\ lc[c].nextFrame < MaxFrames
    /\ lc' = [lc EXCEPT ![c].nextFrame = @ + 1,
                        ![c].frameQ = Append(@, lc[c].nextFrame + 1)]
    /\ UNCHANGED <<chat, syncClose, play, tr, app, codec, quiz, trivia, voice, bgm>>

\* A posted audioprocess event is dispatched: the capture callback runs.
OnAudioProcess(c) ==
    /\ lc[c].frameQ # <<>>
    /\ LET id == Head(lc[c].frameQ)
           r  == [lc[c] EXCEPT !.frameQ = Tail(@),
                               !.ranDisconnected =
                                   IF lc[c].isConnected THEN @ ELSE @ \cup {id}]
       IN  lc' = [lc EXCEPT ![c] = onaudioprocess(r, id)]
    /\ UNCHANGED <<chat, syncClose, play, tr, app, codec, quiz, trivia, voice, bgm>>

\* A context that close() was called on reaches state 'closed'.
ContextClosed(c) ==
    /\ \/ lc[c].inputAudioContext.closeCalled /\ lc[c].inputAudioContext.state # "closed"
       \/ lc[c].outputAudioContext.closeCalled /\ lc[c].outputAudioContext.state # "closed"
    /\ lc' = [lc EXCEPT
                ![c].inputAudioContext.state =
                    IF lc[c].inputAudioContext.closeCalled THEN "closed" ELSE @,
                ![c].outputAudioContext.state =
                    IF lc[c].outputAudioContext.closeCalled THEN "closed" ELSE @]
    /\ UNCHANGED <<chat, syncClose, play, tr, app, codec, quiz, trivia, voice, bgm>>

\* The effect's cleanup: client.disconnect(), then the playback context is
\* closed (not reached when disconnect() throws).
cleanup(ch, threw) ==
    [ch EXCEPT !.audioContext = IF threw THEN @ ELSE "closed"]

\* personality or traits change: cleanup of the current client, then the
\* effect runs again with a new playback context and a new client.
EffectRerun(f) ==
    /\ chat.mounted
    /\ chat.cur < MaxClients
    /\ \E s \in ContextStates :
         lc' = [lc EXCEPT ![chat.cur] = disconnect(@, f, syncClose),
                          ![chat.cur + 1] = constructor(s)]
    /\ chat' = [chat EXCEPT !.cur = @ + 1, !.audioContext = "open"]
    /\ play' = newPlaybackContext(play)
    /\ UNCHANGED <<syncClose, tr, app, codec, quiz, trivia, voice, bgm>>

\* The chat view closes: the effect's cleanup runs for the last time.
Unmount(f) ==
    /\ chat.mounted
    /\ lc' = [lc EXCEPT ![chat.cur] = disconnect(@, f, syncClose)]
    /\ chat' = [cleanup(chat, lc'[chat.cur].disc.threw) EXCEPT !.mounted = FALSE]
    /\ UNCHANGED <<syncClose, play, tr, app, codec, quiz, trivia, voice, bgm>>

\* The client hands a decoded buffer of duration d to onAudioData.
AudioBuffer(d) ==
    /\ Len(play.sched) < MaxBuffers
    /\ play' = onAudioData(play, d)
    /\ UNCHANGED <<lc, chat, syncClose, tr, app, codec, quiz, trivia, voice, bgm>>

\* The playback context renders: its clock advances.
ClockAdvance ==
    /\ chat.audioContext = "open"
    /\ play.currentTime < MaxTime
    /\ play' = [play EXCEPT !.currentTime = @ + 1]
    /\ UNCHANGED <<lc, chat, syncClose, tr, app, codec, quiz, trivia, voice, bgm>>

\* The channel delivers a server message: onmessage calls handleMessage.
RemoteMessage(c, m) ==
    /\ lc[c].chan \in {"open", "closing"}
    /\ lc[c].received < MaxMessages
    /\ LET w == handleMessage(World([lc[c] EXCEPT !.received = m.n,
                                                 !.inbox = Append(@, m)],
                                    play, tr, chat.mounted), m)
       IN  /\ lc' = [lc EXCEPT ![c] = w.r]
           /\ play' = w.play
           /\ tr' = w.tr
    /\ UNCHANGED <<chat, syncClose, app, codec, quiz, trivia, voice, bgm>>

\* The output context's pending resume() promises are settled: fulfilled
\* when the context starts, rejected when it cannot start or was closed.
OutputResumeSettled(c, fulfilled) ==
    /\ lc[c].awaiting # <<>>
    /\ fulfilled => lc[c].outputAudioContext.state = "suspended"
    /\ LET w == resumeSettled(World(lc[c], play, tr, chat.mounted), fulfilled)
       IN  /\ lc' = [lc EXCEPT ![c] = w.r]
           /\ play' = w.play
           /\ tr' = w.tr
    /\ UNCHANGED <<chat, syncClose, app, codec, quiz, trivia, voice, bgm>>

\* The client delivers a transcription fragment to the chat view.
OnTranscription(text, isUser) ==
    /\ chat.mounted
    /\ Len(tr.fragments) < MaxFragments
    /\ tr' = onTranscription(tr, text, isUser)
    /\ UNCHANGED <<lc, chat, syncClose, play, app, codec, quiz, trivia, voice, bgm>>

\* Wall-clock time passes: Date.now() reads a later millisecond.
TimePasses ==
    /\ tr.now < MaxNow
    /\ tr' = [tr EXCEPT !.now = @ + 1]
    /\ UNCHANGED <<lc, chat, syncClose, play, app, codec, quiz, trivia, voice, bgm>>

\* The capture callback encodes a buffer: createBlob(inputData).
CreateBlob(data) ==
    /\ codec.stage = "idle"
    /\ codec' = [NoCodec EXCEPT !.stage = "encoded", !.encoder = "createBlob",
                                !.samples = data,
                                !.int16 = createBlobInt16(data),
                                !.data = createBlob(data)]
    /\ UNCHANGED <<lc, chat, syncClose, play, tr, app, quiz, trivia, voice, bgm>>

\* float32ToB64PCM is applied to a buffer.
Float32ToB64PCM(data) ==
    /\ codec.stage = "idle"
    /\ codec' = [NoCodec EXCEPT !.stage = "encoded",
                                !.encoder = "float32ToB64PCM",
                                !.samples = data,
                                !.int16 = float32ToInt16(data),
                                !.data = float32ToB64PCM(data)]
    /\ UNCHANGED <<lc, chat, syncClose, play, tr, app, quiz, trivia, voice, bgm>>

\* pcmToAudioBuffer is applied to the encoded chunk.
PcmToAudioBuffer ==
    /\ codec.stage = "encoded"
    /\ codec' = [codec EXCEPT
                    !.stage = "decoded",
                    !.threw = pcmToAudioBuffer(codec.data).threw,
                    !.channelData = pcmToAudioBuffer(codec.data).channelData]
    /\ UNCHANGED <<lc, chat, syncClose, play, tr, app, quiz, trivia, voice, bgm>>

\* The decoded buffer is dropped; the codec takes the next one.
BufferDropped ==
    /\ codec.stage = "decoded"
    /\ codec' = NoCodec
    /\ UNCHANGED <<lc, chat, syncClose, play, tr, app, quiz, trivia, voice, bgm>>

\* A question or a verdict is read out: playAudio runs past its await.
PlayAudio(decodes) ==
    /\ Len(app.sources) < MaxSources
    /\ app' = playAudio(app, decodes)
    /\ UNCHANGED <<lc, chat, syncClose, play, tr, codec, quiz, trivia, voice, bgm>>

\* Source i plays its buffer to the end.
SourceRunsOut(i) ==
    /\ app.sources[i] = "playing"
    /\ app' = [app EXCEPT !.sources[i] = "ending"]
    /\ UNCHANGED <<lc, chat, syncClose, play, tr, codec, quiz, trivia, voice, bgm>>

\* The ended event of source i is dispatched.
SourceEnded(i) ==
    /\ app.sources[i] = "ending"
    /\ app' = onended(app, i)
    /\ UNCHANGED <<lc, chat, syncClose, play, tr, codec, quiz, trivia, voice, bgm>>

\* The player leaves the game.
ConfirmExit ==
    /\ app' = confirmExit(app)
    /\ quiz' = [quiz EXCEPT !.gameState = "SETUP"]
    /\ <<app', quiz'>> # <<app, quiz>>
    /\ UNCHANGED <<lc, chat, syncClose, play, tr, codec, trivia, voice, bgm>>

\* generateTriviaQuestion is called and the text service answers.
GenerateTriviaQuestion(apiKey, response) ==
    /\ trivia.stage = "idle"
    /\ trivia' = [stage |-> "settled", apiKey |-> apiKey,
                  response |-> response,
                  result |-> generateTriviaQuestion(apiKey, response)]
    /\ UNCHANGED <<lc, chat, syncClose, play, tr, app, codec, quiz, voice, bgm>>

\* The caller has taken the question.
QuestionTaken ==
    /\ trivia.stage = "settled"
    /\ trivia' = NoTrivia
    /\ UNCHANGED <<lc, chat, syncClose, play, tr, app, codec, quiz, voice, bgm>>

\* Start is pressed on the setup screen.
HandleStartGame ==
    /\ quiz.gameState = "SETUP"
    /\ quiz.loads < MaxLoads
    /\ Cardinality(quiz.calls) < MaxPending
    /\ quiz' = handleStartGame(quiz)
    /\ UNCHANGED <<lc, chat, syncClose, play, tr, app, codec, trivia, voice, bgm>>

\* A question request is answered by the text service.
QuestionLoaded(call) ==
    /\ call.kind = "question"
    /\ quiz' = questionLoaded(quiz, call)
    /\ UNCHANGED <<lc, chat, syncClose, play, tr, app, codec, trivia, voice, bgm>>

\* The player picks an option of the question on screen.
HandleAnswer(isCorrect) ==
    /\ quiz.gameState = "PLAYING"
    /\ quiz.currentQuestion # 0
    /\ Cardinality(quiz.calls) < MaxPending
    /\ quiz' = handleAnswer(quiz, isCorrect)
    /\ UNCHANGED <<lc, chat, syncClose, play, tr, app, codec, trivia, voice, bgm>>

\* Next is pressed on the result screen.
HandleNext ==
    /\ quiz.gameState = "RESULT"
    /\ quiz.questionCount < QuestionsPerGame
           => quiz.loads < MaxLoads /\ Cardinality(quiz.calls) < MaxPending
    /\ quiz' = handleNext(quiz)
    /\ UNCHANGED <<lc, chat, syncClose, play, tr, app, codec, trivia, voice, bgm>>

\* A synthesis request settles. A usable payload goes to playAudio, whose
\* initAudio finds the context running and whose body runs in the same
\* task.
SpeechSettled(call, outcome, decodes) ==
    LET r == generateSpeech(TRUE, outcome)
        played == Played(call, r, decodes)
    IN  /\ call.kind \in {"readout", "reaction"}
        /\ quiz' = speechSettled(quiz, call, r, decodes)
        /\ IF played \in {"started", "failed"}
           THEN /\ Len(app.sources) < MaxSources
                /\ app' = playAudio(app, decodes)
           ELSE /\ decodes
                /\ app' = app
        /\ UNCHANGED <<lc, chat, syncClose, play, tr, codec, trivia, voice, bgm>>

\* A setting that loadNextQuestion depends on (topic, voice, difficulty,
\* traits) is changed on the setup screen: the callback is made anew.
SettingsChanged ==
    /\ quiz.gameState = "SETUP"
    /\ quiz.loadSees # quiz.analyser
    /\ quiz' = [quiz EXCEPT !.loadSees = quiz.analyser]
    /\ UNCHANGED <<lc, chat, syncClose, play, tr, app, codec, trivia, voice, bgm>>

\* The hook's component renders with new handlers and, it may be, a new
\* game state or a new enabled prop.
Render(gameState, enabled) ==
    /\ voice.mounted
    /\ voice' = Quiet(render(voice, gameState, enabled))
    /\ voice' # voice
    /\ UNCHANGED <<lc, chat, syncClose, play, tr, app, codec, quiz, trivia, bgm>>

\* The recognizer delivers a result event.
RecognitionResult(final, text) ==
    /\ voice.rec = "listening"
    /\ voice' = onresult(Quiet(voice), final, text)
    /\ UNCHANGED <<lc, chat, syncClose, play, tr, app, codec, quiz, trivia, bgm>>

\* The recognizer reports an error; its end event follows.
RecognitionError(e) ==
    /\ voice.rec = "listening"
    /\ voice' = recognition_onerror(Quiet(voice), e)
    /\ UNCHANGED <<lc, chat, syncClose, play, tr, app, codec, quiz, trivia, bgm>>

\* The recognizer ends: after an error, after stop(), or by itself.
RecognitionEnd ==
    /\ voice.rec \in {"listening", "ending"}
    /\ voice' = onend(Quiet(voice))
    /\ UNCHANGED <<lc, chat, syncClose, play, tr, app, codec, quiz, trivia, bgm>>

\* The restart timer fires.
RestartTimer ==
    /\ voice.timer # "none"
    /\ voice' = restart(Quiet(voice))
    /\ UNCHANGED <<lc, chat, syncClose, play, tr, app, codec, quiz, trivia, bgm>>

\* The hook's component unmounts.
VoiceUnmount ==
    /\ voice.mounted
    /\ voice' = voiceCleanup(Quiet(voice))
    /\ UNCHANGED <<lc, chat, syncClose, play, tr, app, codec, quiz, trivia, bgm>>

\* ---------------------------------------------------------- specification
\* The release steps as fallible operations: at most one of them throws in
\* one disconnect() call.
FaultSets == {{}} \cup {{s} : s \in Steps}

\* One LiveClient from construction to the end of the chat view.
Next ==
    \/ \E c \in Clients : GetUserMediaResolve(c)
    \/ \E c \in Clients : GetUserMediaReject(c, {})
    \/ \E c \in Clients : WsOpen(c)
    \/ \E c \in Clients : ResumeDone(c)
    \/ \E c \in Clients : SessionResolve(c)
    \/ \E c \in Clients : SessionReject(c, {})
    \/ \E c \in Clients : RemoteError(c)
    \/ \E c \in Clients : RemoteClose(c)
    \/ \E c \in Clients : AudioTick(c)
    \/ \E c \in Clients : OnAudioProcess(c)
    \/ \E c \in Clients : ContextClosed(c)
    \/ Unmount({})

Spec == Init /\ [][Next]_vars

\* The same lifetime with fallible release steps.
NextFault ==
    \/ \E c \in Clients : GetUserMediaResolve(c)
    \/ \E c \in Clients, f \in FaultSets : GetUserMediaReject(c, f)
    \/ \E c \in Clients : WsOpen(c)
    \/ \E c \in Clients : ResumeDone(c)
    \/ \E c \in Clients : SessionResolve(c)
    \/ \E c \in Clients, f \in FaultSets : SessionReject(c, f)
    \/ \E c \in Clients : RemoteError(c)
    \/ \E c \in Clients : RemoteClose(c)
    \/ \E c \in Clients : AudioTick(c)
    \/ \E c \in Clients : OnAudioProcess(c)
    \/ \E c \in Clients : ContextClosed(c)
    \/ \E f \in FaultSets : Unmount(f)

SpecFault == Init /\ [][NextFault]_vars

\* The chat view across re-runs of its effect: several clients in turn.
NextChat ==
    \/ \E c \in Clients : GetUserMediaResolve(c)
    \/ \E c \in Clients : GetUserMediaReject(c, {})
    \/ \E c \in Clients : WsOpen(c)
    \/ \E c \in Clients : ResumeDone(c)
    \/ \E c \in Clients : SessionResolve(c)
    \/ \E c \in Clients : SessionReject(c, {})
    \/ \E c \in Clients : RemoteError(c)
    \/ \E c \in Clients : RemoteClose(c)
    \/ \E c \in Clients : AudioTick(c)
    \/ \E c \in Clients : OnAudioProcess(c)
    \/ \E c \in Clients : ContextClosed(c)
    \/ EffectRerun({})
    \/ Unmount({})

SpecChat == Init /\ [][NextChat]_vars

\* One LiveClient receiving server messages, from the opening of its
\* channel to the end of the chat view; capture and the settling of the
\* session promise, which the message handlers do not read, are left to Spec.
NextInbound ==
    \/ \E c \in Clients : GetUserMediaResolve(c)
    \/ \E c \in Clients : WsOpen(c)
    \/ \E c \in Clients : RemoteClose(c)
    \/ \E c \in Clients : ContextClosed(c)
    \/ \E c \in Clients : \E m \in Messages(lc[c].received + 1) : RemoteMessage(c, m)
    \/ \E c \in Clients, fulfilled \in BOOLEAN : OutputResumeSettled(c, fulfilled)
    \/ Unmount({})

SpecInbound == Init /\ [][NextInbound]_vars

\* The playback scheduler of the chat view: buffers of any duration arrive
\* at any clock reading, across re-runs of the effect.
NextPlayback ==
    \/ \E d \in 1..MaxDuration : AudioBuffer(d)
    \/ ClockAdvance
    \/ EffectRerun({})
    \/ Unmount({})

SpecPlayback == Init /\ [][NextPlayback]_vars

\* The transcript of the chat view: fragments of either speaker arrive at
\* any time until the view closes.
NextTranscript ==
    \/ \E text \in Fragments, isUser \in BOOLEAN : OnTranscription(text, isUser)
    \/ TimePasses
    \/ Unmount({})

SpecTranscript == Init /\ [][NextTranscript]_vars

\* The PCM codec: a buffer is encoded by either encoder, the chunk decoded.
NextCodec ==
    \/ \E data \in Buffers(MaxSamples) : CreateBlob(data)
    \/ \E data \in Buffers(MaxSamples) : Float32ToB64PCM(data)
    \/ PcmToAudioBuffer
    \/ BufferDropped

SpecCodec == Init /\ [][NextCodec]_vars

\* Host speech in the quiz view.
NextSpeech ==
    \/ \E decodes \in BOOLEAN : PlayAudio(decodes)
    \/ \E i \in DOMAIN app.sources : SourceRunsOut(i)
    \/ \E i \in DOMAIN app.sources : SourceEnded(i)
    \/ ConfirmExit

SpecSpeech == Init /\ [][NextSpeech]_vars

\* The quiz: questions are loaded, answered and read out.
NextQuiz ==
    \/ HandleStartGame
    \/ \E call \in quiz.calls : QuestionLoaded(call)
    \/ \E isCorrect \in BOOLEAN : HandleAnswer(isCorrect)
    \/ HandleNext
    \/ \E call \in quiz.calls, outcome \in SpeechOutcomes,
          decodes \in BOOLEAN : SpeechSettled(call, outcome, decodes)
    \/ SettingsChanged
    \/ quiz.gameState # "SETUP" /\ ConfirmExit

SpecQuiz == Init /\ [][NextQuiz]_vars

\* Question generation: one call after another.
NextTrivia ==
    \/ \E apiKey \in BOOLEAN, response \in Responses :
          GenerateTriviaQuestion(apiKey, response)
    \/ QuestionTaken

SpecTrivia == Init /\ [][NextTrivia]_vars

\* Background music: the host starts or stops speaking.
ShouldDuckChanged ==
    /\ bgm.mounted
    /\ bgm.changes < MaxChanges
    /\ bgm' = [setShouldDuck(bgm, ~bgm.shouldDuck) EXCEPT !.changes = @ + 1]
    /\ UNCHANGED <<lc, chat, syncClose, play, tr, app, codec, quiz, trivia, voice>>

\* The user presses the mute button.
ToggleMute ==
    /\ bgm.mounted
    /\ bgm.changes < MaxChanges
    /\ bgm' = [toggleMute(bgm) EXCEPT !.changes = @ + 1]
    /\ UNCHANGED <<lc, chat, syncClose, play, tr, app, codec, quiz, trivia, voice>>

\* The fade interval fires.
FadeTick(rounded) ==
    /\ bgm.timer
    /\ bgm' = fade(bgm, rounded)
    /\ UNCHANGED <<lc, chat, syncClose, play, tr, app, codec, quiz, trivia, voice>>

\* The component using the hook unmounts.
BgmUnmount ==
    /\ bgm.mounted
    /\ bgm' = bgmCleanup(bgm)
    /\ UNCHANGED <<lc, chat, syncClose, play, tr, app, codec, quiz, trivia, voice>>

\* Voice control: renders of the host component and recognizer events.
NextVoice ==
    \/ \E gameState \in GameStates, enabled \in BOOLEAN :
          Render(gameState, enabled)
    \/ \E final \in BOOLEAN, text \in Transcripts :
          RecognitionResult(final, text)
    \/ \E e \in RecognitionErrors : RecognitionError(e)
    \/ RecognitionEnd
    \/ RestartTimer
    \/ VoiceUnmount

SpecVoice == Init /\ [][NextVoice]_vars

\* Background music: props and mute changes, and the ticks of the interval.
\* setInterval fires its callback every 50 ms until it is cleared.
NextDucking ==
    \/ ShouldDuckChanged
    \/ ToggleMute
    \/ \E rounded \in BOOLEAN : FadeTick(rounded)
    \/ BgmUnmount

SpecDucking ==
    Init /\ [][NextDucking]_vars /\ WF_vars(\E rounded \in BOOLEAN : FadeTick(rounded))

\* ------------------------------------------------------------------ claims
\* A client whose connect() promise has settled (returned or caught).
Settled(r) == r.pc \in {"settled", "failed"}

\* C1: if disconnect() is called while connect() is in flight (awaiting the
\* microphone or the session), then once connect() has settled the client
\* holds no live microphone track, its remote channel is not open (closed,
\* closing or never opened) and isConnected is false.
C1_DisconnectDuringConnect ==
    \A c \in Clients :
        (lc[c].disc.inFlight /\ Settled(lc[c])) =>
            /\ lc[c].track # "live"
            /\ lc[c].chan \notin {"connecting", "open"}
            /\ ~lc[c].isConnected

\* C2: every session.sendRealtimeInput call is made while isConnected is
\* true: no frame reaches the transport after isConnected was set to false.
C2_SendOnlyWhileConnected ==
    \A c \in Clients : ~lc[c].badSend

\* The frames waiting on the session promise to be sent.
Queued(r) == {r.reactions[i].id : i \in {j \in DOMAIN r.reactions : r.reactions[j].k = "send"}}

\* The frames handed to sendRealtimeInput so far.
Sent(r) == {r.sent[i] : i \in DOMAIN r.sent}

\* The capture callback runs in this step for client c.
CallbackRuns(c) == Len(lc'[c].frameQ) < Len(lc[c].frameQ)

\* C3: a capture frame whose callback runs while isConnected is false is
\* dropped: that step sends nothing, queues nothing and calls neither
\* onError nor any other callback of the caller, and the frame is never
\* sent later.
C3_FrameDroppedWhenNotConnected ==
    /\ [](\A c \in Clients :
            lc[c].ranDisconnected \cap (Sent(lc[c]) \cup Queued(lc[c])) = {})
    /\ [][\A c \in Clients :
            (CallbackRuns(c) /\ ~lc[c].isConnected) =>
                /\ lc'[c].sent = lc[c].sent
                /\ lc'[c].reactions = lc[c].reactions
                /\ lc'[c].onErrorCalls = lc[c].onErrorCalls
                /\ chat' = chat]_vars

\* C3 witness: after the close event a capture callback has run and its
\* frame was dropped, while an earlier frame had been sent.
C3_Witness ==
    \E c \in Clients :
        /\ lc[c].ranDisconnected # {}
        /\ lc[c].closedEvt
        /\ lc[c].sent # <<>>

\* C4: nothing of the capture pipeline exists before the open event of the
\* session: no source, no processor, no wired graph, no frame produced,
\* queued or sent.
C4_CaptureOnlyAfterOpen ==
    \A c \in Clients :
        ~lc[c].opened =>
            /\ ~lc[c].processor /\ ~lc[c].source /\ ~lc[c].graph
            /\ lc[c].micPc = "idle"
            /\ lc[c].nextFrame = 0
            /\ lc[c].sent = <<>>
            /\ Queued(lc[c]) = {}

\* C4 witness: after its open event a session has a wired capture graph and
\* has sent a frame.
C4_Witness ==
    \E c \in Clients :
        lc[c].opened /\ lc[c].processor /\ lc[c].graph /\ lc[c].sent # <<>>

\* C5: after an error event on an open session the caller's onError has
\* been invoked and the client has torn itself down: not connected, capture
\* graph unwired, microphone track stopped, channel not open.
C5_ErrorTearsDown ==
    \A c \in Clients :
        (lc[c].errorEvt /\ lc[c].opened) =>
            /\ lc[c].onErrorCalls >= 1
            /\ ~lc[c].isConnected
            /\ ~lc[c].graph
            /\ lc[c].track # "live"
            /\ lc[c].chan # "open"

\* C6: over any number of disconnect() calls each release step is invoked at
\* most once per client, and no call throws or leaves a rejected promise.
C6_ReleaseAtMostOnce ==
    \A c \in Clients :
        /\ \A s \in Steps : lc[c].calls[s] <= 1
        /\ ~lc[c].disc.threw
        /\ ~lc[c].disc.rejected

\* What disconnect() can change: the client's fields and its resources.
Program(r) ==
    <<r.isConnected, r.session, r.micStream, r.processor, r.source,
      r.inputAudioContext, r.outputAudioContext,
      r.track, r.chan, r.graph, r.reactions, r.calls>>

\* disconnect() is called on client c in this step.
DisconnectCalled(c) == lc'[c].disc.n > lc[c].disc.n

\* C7: every close event marks the handle not connected and invokes onClose
\* once; a disconnect() made after the close event changes no state and
\* raises no error.
C7_CloseThenDisconnectNoOp ==
    [][\A c \in Clients :
        /\ (lc'[c].closedEvt /\ ~lc[c].closedEvt) =>
              /\ ~lc'[c].isConnected
              /\ lc'[c].onCloseCalls = lc[c].onCloseCalls + 1
        /\ (lc[c].closedEvt /\ DisconnectCalled(c)) =>
              /\ Program(lc'[c]) = Program(lc[c])
              /\ ~lc'[c].disc.threw
              /\ ~lc'[c].disc.rejected]_vars

\* The release steps that have something to release in state r.
Needed(r) ==
    {s \in Steps :
        \/ s = "sessionClose" /\ r.session /\ r.promise # "rejected"
        \/ s = "trackStop" /\ r.micStream
        \/ s = "processorDisconnect" /\ r.processor
        \/ s = "sourceDisconnect" /\ r.source
        \/ s = "inputClose" /\ r.inputAudioContext.state # "closed"
        \/ s = "outputClose" /\ r.outputAudioContext.state # "closed"}

\* Release step s is invoked on client c in this step.  The close of a
\* session still pending counts once its callback is registered; a session
\* whose promise has rejected never existed.
Attempted(c, s) ==
    \/ lc'[c].calls[s] > lc[c].calls[s]
    \/ s = "sessionClose" /\ Len(lc'[c].reactions) > Len(lc[c].reactions)
    \/ s = "sessionClose" /\ lc'[c].promise = "rejected"

\* C8: in every disconnect() call each release step that has something to
\* release is invoked, whichever step fails, and the call does not throw.
C8_ReleaseStepsIndependent ==
    [][\A c \in Clients :
        DisconnectCalled(c) =>
            /\ ~lc'[c].disc.threw
            /\ \A s \in Needed(lc[c]) : Attempted(c, s)]_vars

\* C9: a disconnect() on an open session with capture running at once sets
\* isConnected to false, stops the track, detaches processor and source,
\* requests the close of the session and closes both audio contexts; after
\* it no further frame is sent.
C9_DisconnectFromOpen ==
    [][\A c \in Clients :
        /\ (OpenCapturing(lc[c]) /\ DisconnectCalled(c)) =>
              /\ ~lc'[c].isConnected
              /\ lc'[c].track = "stopped" /\ ~lc'[c].micStream
              /\ ~lc'[c].processor /\ ~lc'[c].source /\ ~lc'[c].graph
              /\ Attempted(c, "sessionClose")
              /\ lc'[c].inputAudioContext.closeCalled
              /\ lc'[c].outputAudioContext.closeCalled
        /\ lc[c].disc.fromOpen => lc'[c].sent = lc[c].sent]_vars

\* A client that holds an open remote channel or a live microphone stream.
Live(r) == r.chan = "open" \/ r.track = "live"

\* C10: at every moment of the chat view, across re-runs of its effect, at
\* most one LiveClient holds an open channel or a live microphone stream.
C10_AtMostOneLiveClient ==
    Cardinality({c \in Clients : Live(lc[c])}) <= 1

\* C11: the capture resources (microphone stream, media-stream source, script
\* processor) are held only after the remote open event and before the
\* first disconnect() call: none while the client is still connecting, none
\* once disconnect() has been called.
C11_CaptureResourcesOnlyWhileOpen ==
    \A c \in Clients :
        (lc[c].micStream \/ lc[c].source \/ lc[c].processor) =>
            (lc[c].opened /\ lc[c].disc.n = 0)

\* The end of the i-th scheduled interval.
EndOf(i) == play.sched[i].start + play.sched[i].duration

\* The cursor as onAudioData left it after the i-th buffer.
CursorAfter(i) ==
    IF i < Len(play.sched) THEN play.sched[i + 1].cursor
    ELSE play.nextStartTime

\* C12: over any sequence of inbound buffers and any advance of the output
\* clock, nextStartTimeRef never decreases, and every buffer is started at a
\* time not earlier than the clock's reading when it is scheduled.
C12_CursorMonotoneNotInPast ==
    /\ [](\A i \in DOMAIN play.sched : play.sched[i].start >= play.sched[i].at)
    /\ [][play'.nextStartTime >= play.nextStartTime]_vars

\* A buffer scheduled after the clock has passed a cursor that earlier
\* buffers had advanced.
C12_Witness ==
    \E i \in DOMAIN play.sched :
        /\ i > 1
        /\ play.sched[i].at > play.sched[i].cursor
        /\ play.sched[i].start >= play.sched[i].at

RECURSIVE SumDurations(_)
SumDurations(n) ==
    IF n = 0 THEN 0 ELSE SumDurations(n - 1) + play.sched[n].duration

\* Every buffer but the first arrived no later than the previous buffer's
\* scheduled end.
NoStall ==
    \A i \in 2..Len(play.sched) : play.sched[i].at <= EndOf(i - 1)

\* C13: when the buffers are delivered without stall, the cursor after the
\* last one is the first buffer's start plus the sum of all durations and
\* each buffer starts exactly at the previous buffer's end; and no two
\* scheduled intervals overlap.
C13_GaplessWithoutStall ==
    /\ (NoStall /\ play.sched # <<>>) =>
           /\ play.nextStartTime =
                  play.sched[1].start + SumDurations(Len(play.sched))
           /\ \A i \in 2..Len(play.sched) : play.sched[i].start = EndOf(i - 1)
    /\ \A i, j \in DOMAIN play.sched : i < j => EndOf(i) <= play.sched[j].start

\* Three buffers delivered without stall while the clock was running.
C13_Witness ==
    /\ Len(play.sched) = MaxBuffers
    /\ NoStall
    /\ play.sched[MaxBuffers].at > play.sched[1].at
    /\ play.nextStartTime = play.sched[1].start + SumDurations(MaxBuffers)

\* C14: a buffer that arrives when the clock already exceeds the cursor is
\* started at the clock's time, not at the stale cursor, and the cursor
\* becomes that time plus the buffer's duration.
C14_LateBufferStartsAtClock ==
    \A i \in DOMAIN play.sched :
        play.sched[i].at > play.sched[i].cursor =>
            /\ play.sched[i].start = play.sched[i].at
            /\ CursorAfter(i) = play.sched[i].at + play.sched[i].duration

\* A late buffer, scheduled at the clock, followed by another buffer.
C14_Witness ==
    \E i \in DOMAIN play.sched :
        /\ i < Len(play.sched)
        /\ play.sched[i].at > play.sched[i].cursor
        /\ play.sched[i].start = play.sched[i].at
        /\ play.sched[i + 1].cursor = play.sched[i].at + play.sched[i].duration

\* C15: isSpeaking is true whenever a host speech source is playing, and is
\* cleared only when no source is left playing; in particular when a new
\* playback replaces a source that is still playing, whichever way the old
\* source's ended event and the new source's start are ordered.
C15_SpeakingWhilePlaying ==
    (\E i \in DOMAIN app.sources : app.sources[i] = "playing") => app.isSpeaking

\* The turns without their identifiers.
Shown(ts) == [i \in DOMAIN ts |-> [text |-> ts[i].text, isUser |-> ts[i].isUser]]

\* The reference rule applied to the first n fragments.
RECURSIVE Reference(_, _)
Reference(fs, n) ==
    IF n = 0 THEN <<>>
    ELSE LET r == Reference(fs, n - 1)
             f == fs[n]
         IN  IF r # <<>> /\ r[Len(r)].isUser = f.isUser
             THEN [r EXCEPT ![Len(r)].text = @ \o f.text]
             ELSE Append(r, f)

\* A fragment is delivered whose speaker is the last turn's speaker.
Merges ==
    /\ Len(tr'.fragments) = Len(tr.fragments) + 1
    /\ tr.transcripts # <<>>
    /\ tr.transcripts[Len(tr.transcripts)].isUser =
           tr'.fragments[Len(tr'.fragments)].isUser

\* C16: for every sequence of (text, speaker) fragments the transcript list
\* is the result of the reference rule: a fragment of the last turn's
\* speaker is appended to that turn's text, the turn keeping its identifier
\* and position; any other fragment becomes a new last turn.
C16_TranscriptFollowsReference ==
    /\ [](Shown(tr.transcripts) = Reference(tr.fragments, Len(tr.fragments)))
    /\ [][Merges =>
            /\ Len(tr'.transcripts) = Len(tr.transcripts)
            /\ tr'.transcripts[Len(tr.transcripts)].id =
                   tr.transcripts[Len(tr.transcripts)].id]_vars

\* (user,"hel"), (user,"lo"), (host,"hi") has given user:"hello", host:"hi".
C16_Witness ==
    /\ tr.fragments = <<[text |-> <<"h", "e", "l">>, isUser |-> TRUE],
                        [text |-> <<"l", "o">>, isUser |-> TRUE],
                        [text |-> <<"h", "i">>, isUser |-> FALSE]>>
    /\ Shown(tr.transcripts) =
           <<[text |-> <<"h", "e", "l", "l", "o">>, isUser |-> TRUE],
             [text |-> <<"h", "i">>, isUser |-> FALSE]>>

\* The number of maximal same-speaker runs in the fragments.
Runs(fs) ==
    Cardinality({i \in DOMAIN fs : i = 1 \/ fs[i].isUser # fs[i - 1].isUser})

\* C17: a fragment is merged only into the immediately preceding turn: no
\* two adjacent turns have the same speaker, there are as many turns as
\* maximal same-speaker runs of fragments, and a fragment never changes a
\* turn that is not the last one.
C17_MergeOnlyIntoLastTurn ==
    /\ [](/\ \A i \in 2..Len(tr.transcripts) :
                 tr.transcripts[i].isUser # tr.transcripts[i - 1].isUser
           /\ Len(tr.transcripts) = Runs(tr.fragments))
    /\ [][\A i \in 1..(Len(tr.transcripts) - 1) :
              /\ i \in DOMAIN tr'.transcripts
              /\ tr'.transcripts[i] = tr.transcripts[i]]_vars

\* (user,a), (host,b), (user,c) has given three turns.
C17_Witness ==
    /\ Len(tr.fragments) = 3
    /\ tr.fragments[1].isUser /\ ~tr.fragments[2].isUser /\ tr.fragments[3].isUser
    /\ Len(tr.transcripts) = 3

\* s is a prefix of t.
IsPrefix(s, t) == Len(s) <= Len(t) /\ SubSeq(t, 1, Len(s)) = s

\* C18: the transcript is append-only while the chat view is open: an update
\* leaves the number of turns unchanged or larger by one, keeps the place,
\* speaker and identifier of every existing turn, and changes an existing
\* turn's text only by adding a suffix.
C18_TranscriptAppendOnly ==
    [][/\ Len(tr'.transcripts) \in {Len(tr.transcripts), Len(tr.transcripts) + 1}
       /\ \A i \in DOMAIN tr.transcripts :
              /\ tr'.transcripts[i].isUser = tr.transcripts[i].isUser
              /\ tr'.transcripts[i].id = tr.transcripts[i].id
              /\ IsPrefix(tr.transcripts[i].text, tr'.transcripts[i].text)]_vars

\* Two turns, each grown by a second fragment, the second turn created at a
\* later millisecond than the first.
C18_Witness ==
    /\ Len(tr.transcripts) = 2
    /\ Len(tr.fragments) = 4
    /\ Len(tr.transcripts[1].text) > 3
    /\ Len(tr.transcripts[2].text) > 3
    /\ tr.transcripts[2].id > tr.transcripts[1].id

C20_TextInArrivalOrderPerSpeaker ==
    \A c \in Clients :
        \A i, j \in DOMAIN lc[c].handedText :
            (i < j /\ lc[c].handedText[i].isUser = lc[c].handedText[j].isUser)
                => lc[c].handedText[i].n < lc[c].handedText[j].n

\* C21: capture frames reach the transport in the order they were captured:
\* of two frames that are both sent, the one whose capture callback ran
\* first is passed to sendRealtimeInput first, whether the session promise
\* was pending or resolved when they were captured.
C21_FramesSentInCaptureOrder ==
    \A c \in Clients :
        \A i, j \in DOMAIN lc[c].sent :
            i < j => lc[c].sent[i] < lc[c].sent[j]

\* Two frames sent, the first of them captured while the session promise
\* was still pending.
C21_Witness ==
    \E c \in Clients :
        /\ Len(lc[c].sent) >= 2
        /\ lc[c].sent[1] \in lc[c].deferred

\* The messages of client r whose handler has run to its end.
Handled(r) == {n \in 1..r.received : \A k \in DOMAIN r.awaiting : r.awaiting[k].n # n}

\* Message n of client r carries an audio payload of odd byte length.
Malformed(r, n) == r.inbox[n].bytes % 2 = 1

\* A step of client c's message handlers: a message arrives or suspended
\* handlers continue.
Handles(c) ==
    lc'[c].received > lc[c].received \/ Len(lc'[c].awaiting) < Len(lc[c].awaiting)

\* C22: an inbound audio payload of odd byte length fails to decode and the
\* failure stays with that chunk: onAudioData is not called for it, onError
\* is not called and isConnected does not change, a transcription in the
\* same message is still delivered, and other messages are processed as
\* usual.
C22_MalformedChunkContained ==
    /\ [](\A c \in Clients :
             /\ \A i \in DOMAIN lc[c].handedAudio :
                    ~Malformed(lc[c], lc[c].handedAudio[i])
             /\ \A n \in Handled(lc[c]) :
                    /\ lc[c].inbox[n].out =>
                           \E i \in DOMAIN lc[c].handedText :
                               lc[c].handedText[i] = [n |-> n, isUser |-> FALSE]
                    /\ lc[c].inbox[n].inp =>
                           \E i \in DOMAIN lc[c].handedText :
                               lc[c].handedText[i] = [n |-> n, isUser |-> TRUE]
                    /\ (lc[c].inbox[n].bytes = 2 /\ n \notin lc[c].awaited) =>
                           \E i \in DOMAIN lc[c].handedAudio :
                               lc[c].handedAudio[i] = n)
    /\ [][\A c \in Clients :
              Handles(c) => /\ lc'[c].onErrorCalls = lc[c].onErrorCalls
                            /\ lc'[c].isConnected = lc[c].isConnected]_vars

\* A malformed chunk with a host transcription was dropped, its
\* transcription delivered, and the next message's audio handed over, on a
\* client that is still connected and has reported no error.
C22_Witness ==
    \E c \in Clients :
        /\ lc[c].received = 2
        /\ Malformed(lc[c], 1) /\ lc[c].inbox[1].out
        /\ lc[c].handedText # <<>>
        /\ lc[c].handedText[1] = [n |-> 1, isUser |-> FALSE]
        /\ lc[c].handedAudio = <<2>>
        /\ lc[c].isConnected /\ lc[c].onErrorCalls = 0

\* Message m carries no audio and no transcription.
Empty(m) == m.bytes = 0 /\ ~m.out /\ ~m.inp

\* C23: a message that carries neither audio nor a transcription is
\* ignored: no callback is invoked, and the connection state, the playback
\* cursor and the transcript are unchanged.
C23_UnknownMessageIgnored ==
    [][\A c \in Clients :
          (lc'[c].received > lc[c].received /\ Empty(lc'[c].inbox[lc'[c].received])) =>
              /\ lc'[c] = [lc[c] EXCEPT !.received = lc'[c].received,
                                        !.inbox = lc'[c].inbox]
              /\ play' = play /\ tr' = tr /\ chat' = chat]_vars

\* An empty message was received after a message with audio and text, and
\* the client is still connected.
C23_Witness ==
    \E c \in Clients :
        /\ lc[c].received = 2
        /\ Empty(lc[c].inbox[2])
        /\ lc[c].handedAudio = <<1>> /\ Len(lc[c].handedText) = 1
        /\ lc[c].isConnected /\ lc[c].onErrorCalls = 0 /\ lc[c].onCloseCalls = 0

\* C24: the encoder of the capture path clamps each sample to [-1, 1] before
\* scaling, so every encoded 16-bit value has the sign of its input: +1.0
\* or more encodes to 32767, -1.0 or less to -32768, nothing wraps around.
C24_CaptureEncoderClamps ==
    codec.encoder = "createBlob" =>
        \A i \in DOMAIN codec.samples :
            /\ codec.samples[i] >= Unit => codec.int16[i] = 32767
            /\ codec.samples[i] <= -Unit => codec.int16[i] = -32768
            /\ codec.samples[i] > 0 => codec.int16[i] >= 0
            /\ codec.samples[i] < 0 => codec.int16[i] <= 0

\* |v|
Abs(v) == IF v < 0 THEN -v ELSE v

\* C25: for every buffer with values in [-1, 1], decoding what an encoder
\* produced gives as many samples, each within 1/32768 of the original.
C25_RoundTripWithinOneStep ==
    (/\ codec.stage = "decoded"
     /\ \A i \in DOMAIN codec.samples : Abs(codec.samples[i]) <= Unit) =>
        /\ ~codec.threw
        /\ Len(codec.channelData) = Len(codec.samples)
        /\ \A i \in DOMAIN codec.samples :
               Abs(codec.channelData[i] - codec.samples[i]) <= Fine

\* connect() of client r failed in getUserMedia: it ran its catch block
\* before any session was requested.
MicRefused(r) == r.pc = "failed" /\ r.promise = "none"

\* C26: when the microphone request is refused, connect() reports it through
\* onError exactly once, never opens the remote channel, never starts
\* capture or sends a frame, and does not ask for the microphone again.
C26_MicRefusedReportedOnce ==
    /\ [](\A c \in Clients :
             MicRefused(lc[c]) =>
                 /\ lc[c].onErrorCalls = 1
                 /\ lc[c].chan = "none" /\ ~lc[c].opened /\ ~lc[c].session
                 /\ lc[c].track = "none" /\ ~lc[c].micStream
                 /\ ~lc[c].graph /\ ~lc[c].source /\ ~lc[c].processor
                 /\ lc[c].nextFrame = 0 /\ lc[c].sent = <<>>)
    /\ [][\A c \in Clients : MicRefused(lc[c]) => MicRefused(lc'[c])]_vars

\* The microphone was refused: the failure was reported and disconnect()
\* ran from the catch block.
C26_Witness ==
    \E c \in Clients :
        /\ MicRefused(lc[c])
        /\ lc[c].onErrorCalls = 1
        /\ lc[c].disc.n >= 1

\* C30: the chat view's isConnected is true only while its LiveClient's
\* session is open: it is not true after connect() has failed, nor after
\* the close event was delivered, whichever way the resolution of connect()
\* and the onError and onClose callbacks are ordered.
C30_ConnectedOnlyWhileOpen ==
    chat.isConnected =>
        /\ lc[chat.cur].pc # "failed"
        /\ ~lc[chat.cur].closedEvt

\* The quiz state apart from the voice-offline indicator and the record of
\* the latest synthesis.
Proceeds(q) ==
    [q EXCEPT !.isVoiceOffline = FALSE, !.last = NoQuiz.last,
              !.analyser = TRUE]

\* A step in which a synthesis request of the quiz settles.
SynthesisSettles == Cardinality(quiz'.calls) < Cardinality(quiz.calls)

\* C27: generateSpeech never rejects: without a key, on a quota error, on
\* any other error and on a response without inline audio it resolves to
\* null, otherwise to the payload; and when a synthesis request of the quiz
\* settles with null, the indicator is set and the rest of the quiz state
\* is what it would be had the request brought audio.
C27_SpeechFailureIsNull ==
    /\ [](\A apiKey \in BOOLEAN, outcome \in SpeechOutcomes :
            LET r == generateSpeech(apiKey, outcome)
            IN  /\ r.settled = "fulfilled"
                /\ r.null <=> (~apiKey \/ outcome \notin {"audio", "emptyAudio"}))
    /\ [][SynthesisSettles =>
            LET r == quiz'.last.result
            IN  /\ r.settled = "fulfilled"
                /\ r.null => quiz'.isVoiceOffline
                /\ \E call \in quiz.calls :
                      Proceeds(quiz') =
                          Proceeds(speechSettled(quiz, call, Resolved(1), TRUE))]_vars

C27_Witness ==
    /\ quiz.last.kind = "readout"
    /\ quiz.last.result.null
    /\ quiz.isVoiceOffline
    /\ quiz.gameState = "PLAYING"
    /\ ~quiz.isGeneratingTTS

\* The synthesis request that settles is the latest one the quiz has made:
\* the read-out of the question on screen before it is answered, or the
\* reaction to its answer.
LatestRequest(l) ==
    /\ l.load = quiz.loads
    /\ l.load = quiz.currentQuestion
    /\ quiz.gameState = IF l.kind = "readout" THEN "PLAYING" ELSE "RESULT"

\* C28: the voice-offline indicator reflects only the current turn: it is
\* true once a synthesis request has returned null, and when the latest
\* request of the quiz (a read-out or a reaction) returns audio the
\* indicator is false afterwards.
C28_IndicatorOfCurrentTurn ==
    [][SynthesisSettles =>
         LET l == quiz'.last
         IN  /\ l.result.null => quiz'.isVoiceOffline
             /\ Truthy(l.result) /\ LatestRequest(l) => ~quiz'.isVoiceOffline]_vars

\* C29: with an API key present generateTriviaQuestion never rejects and,
\* whatever the text service did, resolves to a question with non-empty
\* question text, at least 2 options and a correctAnswerIndex that selects
\* one of them.
C29_QuestionWellFormed ==
    trivia.stage = "settled" /\ trivia.apiKey =>
        /\ trivia.result.settled = "fulfilled"
        /\ trivia.result.data.question = "text"
        /\ trivia.result.data.isArray
        /\ trivia.result.data.options >= 2
        /\ trivia.result.data.hasIndex
        /\ trivia.result.data.correctAnswerIndex \in
               0..(trivia.result.data.options - 1)

\* C31: once disconnect() has been called on a client its isConnected flag
\* is never true again, also when the open event of the connection in
\* flight is delivered after the call.
C31_NeverConnectedAfterDisconnect ==
    \A c \in Clients : lc[c].disc.n >= 1 => ~lc[c].isConnected

\* C32: every transcript turn has an identifier different from that of
\* every other turn of the list, whenever the fragments arrive, two speaker
\* switches at one reading of the clock included.
C32_TurnIdsDistinct ==
    \A i, j \in DOMAIN tr.transcripts :
        i # j => tr.transcripts[i].id # tr.transcripts[j].id

\* C33: once the exit is confirmed the game state is SETUP and stays SETUP
\* until a new game is started: the only step that leaves SETUP is the
\* start of a game, and a question request still in flight at the exit
\* does not take the game to PLAYING when it completes.
C33_SetupUntilStart ==
    [][quiz.gameState = "SETUP" /\ quiz'.gameState # "SETUP" =>
           /\ quiz'.gameState = "LOADING_QUESTION"
           /\ quiz'.loads = quiz.loads + 1]_vars

\* C34: in quiz mode at most one host speech source is playing at any
\* time: when playAudio starts a source, every earlier source has run out
\* or has been stopped, however the playAudio calls and the ended events of
\* stopped sources are ordered.
C34_AtMostOneSourcePlaying ==
    Cardinality({i \in DOMAIN app.sources : app.sources[i] = "playing"}) <= 1

\* Host speech is heard or signalled.
Speaking(a) ==
    a.isSpeaking \/ \E i \in DOMAIN a.sources : a.sources[i] = "playing"

\* C35: after the exit is confirmed no host speech is playing and
\* isSpeaking is false until a new game is started: the step that takes
\* the game to SETUP leaves nothing playing, and while the game stays in
\* SETUP no playback starts, not even from a synthesis request that was in
\* flight at the exit.
C35_SilentAfterExit ==
    [][/\ quiz.gameState # "SETUP" /\ quiz'.gameState = "SETUP"
            => ~Speaking(app')
       /\ quiz.gameState = "SETUP" /\ quiz'.gameState = "SETUP"
            /\ ~Speaking(app) => ~Speaking(app')]_vars

\* C36: whenever a synthesis request returns a usable payload, playback of
\* it starts and isSpeaking becomes true, or the failure is made visible;
\* this holds for the read-out of the first question of the first game,
\* handleStartGame having created context and analyser before loading it.
C36_PayloadIsPlayed ==
    [][SynthesisSettles /\ Truthy(quiz'.last.result) =>
           \/ quiz'.last.played = "started" /\ app'.isSpeaking
           \/ quiz'.last.played = "failed"]_vars

\* The end event is handled and its handler sets the restart timer.
RestartScheduled ==
    /\ voice.rec # "stopped"
    /\ voice'.rec = "stopped"
    /\ voice'.mounted
    /\ voice'.timer # "none"
    /\ voice.enabledRef

\* C37: after the recognizer has reported 'not-allowed', and for as long as
\* the enabled prop has not changed, the end handler does not schedule a
\* restart of recognition, also when the component rendered with new
\* handlers or a new game state between the error and the end event.
C37_NoRestartAfterDenied ==
    [][voice.denied => ~RestartScheduled]_vars

\* C38: a recognition result invokes at most one handler: none while voice
\* control is disabled and none for a result that is not final; onExit and
\* nothing else for an exit phrase in any game state; otherwise onStart
\* only in SETUP, onAnswer with one index of 0..3 only in PLAYING and
\* onNext only in RESULT.
C38_OneHandlerByGameState ==
    /\ Len(voice.invoked) <= 1
    /\ voice.invoked # <<>> =>
          LET call == voice.invoked[1]
              text == voice.heard.text
          IN  /\ voice.enabled
              /\ voice.heard.final
              /\ text.exit <=> call.handler = "onExit"
              /\ call.handler = "onStart" => voice.gameState = "SETUP"
              /\ call.handler = "onAnswer" =>
                     /\ voice.gameState = "PLAYING"
                     /\ call.index \in 0..3
                     /\ call.index \in text.options
              /\ call.handler = "onNext" => voice.gameState = "RESULT"
              /\ call.handler \in {"onExit", "onStart", "onAnswer", "onNext"}

C38_Witness ==
    /\ voice.invoked = <<Call("onAnswer", 2)>>
    /\ voice.heard.text.options = {2, 3}
    /\ voice.heard.text.next
    /\ voice.gameState = "PLAYING"
    /\ voice.heard.final

\* C39: the ducking fade of the background music terminates.  The volume
\* stays between 0.05 and 0.2; whenever it changes the music is not muted
\* and the new volume is either the target exactly or one step of 0.02
\* nearer to the target on the same side of it (no overshoot); and once
\* shouldDuck and the mute setting stay as they are, the volume is the
\* target (0.05 when ducking, 0.2 otherwise) and the interval is cleared
\* from then on, unless the music is muted, in which case the interval is
\* cleared and the volume stays as it was.
TargetVolume == IF bgm.shouldDuck THEN Ducked ELSE Normal

C39_FadeStep ==
    bgm'.volume # bgm.volume =>
        /\ ~bgm.isMuted
        /\ bgm.timer
        /\ \/ bgm'.volume = TargetVolume
           \/ /\ bgm.volume < TargetVolume
              /\ bgm'.volume = bgm.volume + Step
              /\ bgm'.volume <= TargetVolume
           \/ /\ bgm.volume > TargetVolume
              /\ bgm'.volume = bgm.volume - Step
              /\ bgm'.volume >= TargetVolume

C39_FadeTerminates ==
    /\ [](bgm.volume \in Ducked..Normal)
    /\ [](bgm.timer => ~bgm.isMuted /\ bgm.target = TargetVolume)
    /\ [][C39_FadeStep]_vars
    /\ <>[](/\ ~bgm.timer
            /\ bgm.mounted /\ ~bgm.isMuted => bgm.volume = TargetVolume)

\* A fade down has ended: the music is ducked, at 0.05, the interval cleared.
C39_Witness ==
    /\ bgm.mounted
    /\ bgm.shouldDuck
    /\ ~bgm.isMuted
    /\ bgm.volume = Ducked
    /\ ~bgm.timer

========================================================================
